---- MODULE Spec2Model ----
(***************************************************************************)
(* A model of quickbook's BoostBook-to-HTML converter (src/src/bb2html.cpp):*)
(* the hand-written XML parser, the intrusive tree builder, the chunker,   *)
(* the inlining passes, the id index and the page generator.               *)
(*                                                                         *)
(* Strings of the program are sequences of one-character strings, so that  *)
(* the character-level code (the parser, id_to_path, relative_path_from)   *)
(* is modelled by what it does.  Pointers are indices into a node store,   *)
(* 0 is the null pointer.                                                  *)
(***************************************************************************)
EXTENDS Integers, Sequences, FiniteSets, TLC

VARIABLES
    mode,            \* which family of source texts the environment supplies
    chunked_output,  \* html_options::chunked_output
    pc,              \* position of boostbook_to_html
    source,          \* the source text, as far as the environment supplied it
    rest,            \* the unread part of the source text
    pos,             \* offset of rest in the source text (iterator 'it')
    eof,             \* whether rest is all that is left of the source
    xt,              \* xml_tree_builder: node store, root_, current_, parent_
    err,             \* the boostbook_parse_error thrown, or NoError
    oob,             \* the parser dereferenced an iterator equal to end
    chunks,          \* the chunks chunk_document allocated
    chunked,         \* the chunk chunk_document returned (0 before, or null)
    id_paths,        \* the id index
    pending,         \* chunks whose call of generate_chunks_impl is due
    files,           \* the calls of write_file so far, with their outcome
    dirs,            \* the directories created, relative to the root one
    footnote_number, \* the static counter of parser_footnote
    asserted,        \* an assert whose condition was false was passed
    failures,        \* number of write_file calls that failed
    ret,             \* what boostbook_to_html returned, -1 before it returns
    call,            \* a call of a pure function and its result
    detached         \* the nodes tree_builder::extract was called for

parse_vars == <<source, rest, pos, eof, xt, err, oob>>

chunk_vars == <<chunks, chunked, id_paths>>

gen_vars == <<pending, files, dirs, footnote_number, asserted, failures, ret>>

vars == <<mode, chunked_output, pc, parse_vars, chunk_vars, gen_vars, call, detached>>

----------------------------------------------------------------------------
(* Bounds of the model *)

\* number of pieces a source text of the parser specification is made of
MaxPieces == 4

\* number of elements of a document of a conversion
MaxNodes == 3

\* number of elements of a document with footnotes
MaxNoteNodes == 4

\* books and sections of a document of titled books and sections
MaxBooks == 4

\* elements in the book of a document with callouts
MaxCallouts == 3

\* number of write_file calls that fail in one conversion
MaxFailures == 1

\* length of an id id_to_path is called with on its own
MaxIdLen == 2

\* number of nodes added to a tree builder on its own
MaxTreeNodes == 4

----------------------------------------------------------------------------
(* Characters *)

Null == 0

WS == {" ", "\t", "\n", "\r"}

NameChars ==
    {"a","b","c","d","e","f","g","h","i","j","k","l","m","n","o","p","q","r",
     "s","t","u","v","w","x","y","z","A","B","C","D","E","F","G","H","I","J",
     "K","L","M","N","O","P","Q","R","S","T","U","V","W","X","Y","Z",":","-"}

Quotes == {"\"", "'"}

\* the past-the-end iterator of s
End(s) == Len(s) + 1

RECURSIVE Flatten(_)
Flatten(ss) == IF ss = <<>> THEN <<>> ELSE Head(ss) \o Flatten(Tail(ss))

----------------------------------------------------------------------------
(* simple_parse.hpp: the scanning helpers the parser is written with *)

RECURSIVE read_to(_, _, _)
read_to(s, it, c) ==
    IF it = End(s) \/ s[it] = c THEN it ELSE read_to(s, it + 1, c)

RECURSIVE read_to_one_of(_, _, _)
read_to_one_of(s, it, cs) ==
    IF it = End(s) \/ s[it] \in cs THEN it ELSE read_to_one_of(s, it + 1, cs)

RECURSIVE read_some_of(_, _, _)
read_some_of(s, it, cs) ==
    IF it # End(s) /\ s[it] \in cs THEN read_some_of(s, it + 1, cs) ELSE it

\* whether text is found at it
Matches(s, it, text) ==
    /\ it + Len(text) <= End(s)
    /\ SubSeq(s, it, it + Len(text) - 1) = text

\* read: step over text when it is found at it
read(s, it, text) ==
    IF Matches(s, it, text) THEN [ok |-> TRUE, it |-> it + Len(text)]
    ELSE [ok |-> FALSE, it |-> it]

RECURSIVE read_past(_, _, _)
read_past(s, it, text) ==
    IF Matches(s, it, text) THEN [ok |-> TRUE, it |-> it + Len(text)]
    ELSE IF it = End(s) THEN [ok |-> FALSE, it |-> it]
    ELSE read_past(s, it + 1, text)

----------------------------------------------------------------------------
(* The intrusive tree and its builder *)

NoTree == [nodes |-> <<>>, root |-> Null, current |-> Null, parent |-> Null]

\* operator new: the node is stored under the next free index
Alloc(t, n) == [t EXCEPT !.nodes = Append(t.nodes, n)]

\* tree_builder::add_element, n being the index of a node of the store
add_element(t, n) ==
    LET linked ==
            [t.nodes EXCEPT ![n].parent = t.parent, ![n].prev = t.current]
        nodes ==
            IF t.current # Null
            THEN [linked EXCEPT ![t.current].next = n]
            ELSE IF t.parent # Null
            THEN [linked EXCEPT ![t.parent].children = n]
            ELSE linked
    IN  [t EXCEPT
            !.nodes = nodes,
            !.root = IF t.current = Null /\ t.parent = Null THEN n ELSE t.root,
            !.current = n]

\* tree_builder::start_children
start_children(t) == [t EXCEPT !.parent = t.current, !.current = Null]

\* tree_builder::end_children (the caller checks that parent_ is not null)
end_children(t) ==
    [t EXCEPT !.current = t.parent, !.parent = t.nodes[t.parent].parent]

\* tree_builder::extract: the tree without x, and x's former next sibling
extract(t, x) ==
    LET n == t.nodes[x]
        atRoot == n.prev = Null /\ n.parent = Null
        n1 == IF n.prev = Null
              THEN IF n.parent # Null
                   THEN [t.nodes EXCEPT ![n.parent].children = n.next]
                   ELSE t.nodes
              ELSE [t.nodes EXCEPT ![n.prev].next = n.next]
        n2 == IF n.next # Null
              THEN [n1 EXCEPT ![n.next].prev = n.prev]
              ELSE n1
        n3 == [n2 EXCEPT ![x].parent = Null, ![x].next = Null, ![x].prev = Null]
    IN  [tree |-> [t EXCEPT
                      !.nodes = n3,
                      !.root = IF atRoot THEN n.next ELSE t.root,
                      !.parent = IF atRoot THEN Null ELSE t.parent,
                      !.current = IF atRoot THEN n.next ELSE t.current],
         next |-> n.next]

\* tree_builder_base::extract of tree.cpp: the tree without x, and what it
\* returns
tree_builder_base_extract(t, x) ==
    [tree |-> extract(t, x).tree, next |-> x]

\* tree_builder::release
release(t) ==
    [tree |-> [t EXCEPT !.root = Null, !.current = Null, !.parent = Null],
     root |-> t.root]

----------------------------------------------------------------------------
(* xml_element *)

Links == [parent |-> Null, children |-> Null, next |-> Null, prev |-> Null]

\* xml_element::node
node(name) ==
    [type |-> "node", name |-> name, attributes |-> <<>>, contents |-> <<>>]
        @@ Links

\* xml_element::text_node
text_node(x) ==
    [type |-> "text", name |-> <<>>, attributes |-> <<>>, contents |-> x]
        @@ Links

RECURSIVE FirstAttribute(_, _, _)
FirstAttribute(attrs, name, i) ==
    IF i > Len(attrs) THEN Null
    ELSE IF attrs[i][1] = name THEN i
    ELSE FirstAttribute(attrs, name, i + 1)

\* xml_element::get_attribute: the index of the first attribute called name
\* (0 when there is none)
get_attribute(n, name) == FirstAttribute(n.attributes, name, 1)

HasAttribute(n, name) == get_attribute(n, name) # Null

AttributeValue(n, name) == n.attributes[get_attribute(n, name)][2]

----------------------------------------------------------------------------
(* The XML parser.  A reader returns a record: kind "ok" with the iterator *)
(* after the construct, kind "error" with the position of the              *)
(* boostbook_parse_error it throws, or kind "ub" when it runs past end.    *)
(* Positions are indices into s; the action turns them into offsets.       *)

NoError == [msg |-> "", pos |-> -1]

Ok(it, t) == [kind |-> "ok", it |-> it, xt |-> t, msg |-> "", at |-> 0,
              oob |-> FALSE]

Throw(msg, at, t, o) ==
    [kind |-> "error", it |-> 0, xt |-> t, msg |-> msg, at |-> at, oob |-> o]

Undefined(t) ==
    [kind |-> "ub", it |-> 0, xt |-> t, msg |-> "", at |-> 0, oob |-> TRUE]

\* read_string: it is at a quote; the value between it and the matching one
read_string(s, it) ==
    LET close == read_to(s, it + 1, s[it])
    IN  IF close = End(s)
        THEN [ok |-> FALSE, it |-> it, value |-> <<>>]
        ELSE [ok |-> TRUE, it |-> close + 1,
              value |-> SubSeq(s, it + 1, close - 1)]

\* read_tag_name
read_tag_name(s, it) ==
    LET name_start == read_some_of(s, it, WS)
        name_end == read_some_of(s, name_start, NameChars)
    IN  [ok |-> name_start # name_end, it |-> name_end,
         name |-> SubSeq(s, name_start, name_end - 1)]

\* read_attribute_value: *it is read without a test for it == end; g is what
\* that read yields when it is past the end of the source
read_attribute_value(s, it, g) ==
    LET at == read_some_of(s, it, WS)
        past == at = End(s)
        c == IF past THEN g ELSE s[at]
    IN  IF c \in Quotes
        THEN IF past
             THEN [kind |-> "ub", it |-> at, value |-> <<>>, at |-> at,
                   oob |-> TRUE]
             ELSE LET str == read_string(s, at)
                  IN  IF str.ok
                      THEN [kind |-> "ok", it |-> str.it, value |-> str.value,
                            at |-> at, oob |-> FALSE]
                      ELSE [kind |-> "string", it |-> at, value |-> <<>>,
                            at |-> at, oob |-> FALSE]
        ELSE [kind |-> "tag", it |-> at, value |-> <<>>, at |-> at,
              oob |-> past]

\* the attribute loop of read_tag, for the element n just added
RECURSIVE read_attributes(_, _, _, _, _, _)
read_attributes(t, n, s, it0, start, g) ==
    LET it == read_some_of(s, it0, WS)
    IN  IF it = End(s) THEN Throw("Invalid tag", start, t, FALSE)
        ELSE IF s[it] = ">" THEN Ok(it + 1, start_children(t))
        ELSE IF s[it] = "/"
        THEN LET gt == read_some_of(s, it + 1, WS)
             IN  IF gt = End(s) \/ s[gt] # ">"
                 THEN Throw("Invalid tag", start, t, FALSE)
                 ELSE Ok(gt + 1, t)
        ELSE
        LET an == read_tag_name(s, it)
            eq == read_some_of(s, an.it, WS)
        IN  IF ~an.ok THEN Throw("Invalid tag", start, t, FALSE)
            ELSE IF eq = End(s) THEN Throw("Invalid tag", start, t, FALSE)
            ELSE IF s[eq] = "="
            THEN LET v == read_attribute_value(s, eq + 1, g)
                 IN  CASE v.kind = "ub" -> Undefined(t)
                       [] v.kind = "tag" ->
                            Throw("Invalid tag", start, t, v.oob)
                       [] v.kind = "string" ->
                            Throw("Invalid string", v.at, t, FALSE)
                       [] OTHER ->
                            read_attributes(
                                [t EXCEPT !.nodes[n].attributes =
                                    Append(@, <<an.name, v.value>>)],
                                n, s, v.it, start, g)
            ELSE read_attributes(
                    [t EXCEPT !.nodes[n].attributes =
                        Append(@, <<an.name, <<>>>>)],
                    n, s, eq, start, g)

\* read_tag: s[start] is '<', it = start + 1 is not the end
read_tag(t, s, it, start, g) ==
    LET name == read_tag_name(s, it)
        t1 == Alloc(t, node(name.name))
        n == Len(t1.nodes)
    IN  IF ~name.ok THEN Throw("Invalid tag", start, t, FALSE)
        ELSE read_attributes(add_element(t1, n), n, s, name.it, start, g)

\* read_close_tag, were the names compared without regard to case
read_close_tag_ignoring_case(t, s, it, start) ==
    LET Lower(n) == [i \in DOMAIN n |-> IF n[i] = "A" THEN "a" ELSE n[i]]
        name == read_tag_name(s, it + 1)
        gt == read_some_of(s, name.it, WS)
    IN  IF ~name.ok THEN Throw("Invalid tag", start, t, FALSE)
        ELSE IF gt = End(s) \/ s[gt] # ">"
        THEN Throw("Invalid close tag", start, t, FALSE)
        ELSE IF \/ t.parent = Null
                \/ Lower(t.nodes[t.parent].name) # Lower(name.name)
        THEN Throw("Close tag doesn't match", start, t, FALSE)
        ELSE Ok(gt + 1, end_children(t))

\* read_close_tag: s[it] is '/'
read_close_tag(t, s, it, start) ==
    LET name == read_tag_name(s, it + 1)
        gt == read_some_of(s, name.it, WS)
    IN  IF ~name.ok THEN Throw("Invalid tag", start, t, FALSE)
        ELSE IF gt = End(s) \/ s[gt] # ">"
        THEN Throw("Invalid close tag", start, t, FALSE)
        ELSE IF t.parent = Null \/ t.nodes[t.parent].name # name.name
        THEN Throw("Close tag doesn't match", start, t, FALSE)
        ELSE Ok(gt + 1, end_children(t))

\* skip_question_mark_tag: s[it] is '?'
RECURSIVE skip_question_mark_loop(_, _, _, _)
skip_question_mark_loop(t, s, it0, start) ==
    LET it == read_to_one_of(s, it0, {"\"", "'", "?", "<", ">"})
    IN  IF it = End(s) THEN Throw("Invalid tag", start, t, FALSE)
        ELSE IF s[it] \in Quotes
        THEN LET str == read_string(s, it)
             IN  IF str.ok THEN skip_question_mark_loop(t, s, str.it, start)
                 ELSE Throw("Invalid string", it, t, FALSE)
        ELSE IF s[it] = "?"
        THEN IF Matches(s, it, <<"?", ">">>) THEN Ok(it + 2, t)
             ELSE skip_question_mark_loop(t, s, it + 1, start)
        ELSE Throw("Invalid tag", start, t, FALSE)

skip_question_mark_tag(t, s, it, start) ==
    skip_question_mark_loop(t, s, it + 1, start)

\* skip_exclamation_mark_tag: s[it] is '!'
RECURSIVE skip_exclamation_mark_loop(_, _, _, _)
skip_exclamation_mark_loop(t, s, it0, start) ==
    LET it == read_to_one_of(s, it0, {"\"", "'", "<", ">"})
    IN  IF it = End(s) THEN Throw("Invalid tag", start, t, FALSE)
        ELSE IF s[it] \in Quotes
        THEN LET str == read_string(s, it)
             IN  IF str.ok THEN skip_exclamation_mark_loop(t, s, str.it, start)
                 ELSE Throw("Invalid string", it, t, FALSE)
        ELSE IF s[it] = ">" THEN Ok(it + 1, t)
        ELSE Throw("Invalid tag", start, t, FALSE)

skip_exclamation_mark_tag(t, s, it, start) ==
    LET dashes == read(s, it + 1, <<"-", "-">>)
        close == read_past(s, dashes.it, <<"-", "-", ">">>)
    IN  IF dashes.ok
        THEN IF close.ok THEN Ok(close.it, t)
             ELSE Throw("Invalid comment", start, t, FALSE)
        ELSE skip_exclamation_mark_loop(t, s, it + 1, start)

----------------------------------------------------------------------------
(* The chunker *)

chunk_types ==
    {<<"b", "o", "o", "k">>, <<"a", "r", "t", "i", "c", "l", "e">>, <<"l", "i", "b", "r", "a", "r", "y">>, <<"c", "h", "a", "p", "t", "e", "r">>, <<"p", "a", "r", "t">>,
     <<"a", "p", "p", "e", "n", "d", "i", "x">>, <<"p", "r", "e", "f", "a", "c", "e">>, <<"q", "a", "n", "d", "a", "d", "i", "v">>, <<"q", "a", "n", "d", "a", "s", "e", "t">>,
     <<"r", "e", "f", "e", "r", "e", "n", "c", "e">>, <<"s", "e", "t">>, <<"s", "e", "c", "t", "i", "o", "n">>}

chunkinfo_types == {t \o <<"i", "n", "f", "o">> : t \in chunk_types}

\* chunk::chunk
chunk(root) ==
    [title |-> Null, info |-> Null, root |-> root, inline |-> FALSE,
     id |-> <<>>, path |-> <<>>] @@ Links

\* chunk_builder::chunk_builder
NoChunks == [count |-> 0] @@ NoTree

Digit == <<"0", "1", "2", "3", "4", "5", "6", "7", "8", "9">>

\* boost::lexical_cast<std::string> of a non-negative int
RECURSIVE lexical_cast(_)
lexical_cast(n) ==
    IF n < 10 THEN <<Digit[n + 1]>>
    ELSE lexical_cast(n \div 10) \o <<Digit[(n % 10) + 1]>>

\* chunk_builder::next_path_name
next_path_name(builder) ==
    [builder |-> [builder EXCEPT !.count = builder.count + 2],
     result |-> <<"p", "a", "g", "e", "-">> \o lexical_cast(builder.count + 1)]

\* id_to_path
id_to_path(id) ==
    [i \in 1..Len(id) |-> IF id[i] = "." THEN "/" ELSE id[i]] \o <<".", "h", "t", "m", "l">>

\* chunk_nodes: what it does to the chunk builder and to the xml tree, and
\* the node it returns.  chunk_children is the loop that calls it, the one
\* of chunk_document and the one over the children of a new chunk.
RECURSIVE chunk_nodes(_, _, _)
RECURSIVE chunk_children(_, _, _)
chunk_nodes(builder, tree, n) ==
    LET parent == builder.parent
        x == tree.nodes[n]
        ex == extract(tree, n)
    IN  IF parent # Null /\ x.type = "node" /\ x.name = <<"t", "i", "t", "l", "e">>
        THEN [builder |-> [builder EXCEPT !.nodes[parent].title = n],
              tree |-> ex.tree, next |-> ex.next]
        ELSE IF parent # Null /\ x.type = "node" /\ x.name \in chunkinfo_types
        THEN [builder |-> [builder EXCEPT !.nodes[parent].info = n],
              tree |-> ex.tree, next |-> ex.next]
        ELSE IF x.type = "node" /\ x.name \in chunk_types
        THEN
        LET b1 == Alloc(builder, chunk(n))
            c == Len(b1.nodes)
            b2 == add_element(b1, c)
            named == IF HasAttribute(x, <<"i", "d">>)
                     THEN [builder |-> b2,
                           result |-> AttributeValue(x, <<"i", "d">>)]
                     ELSE next_path_name(b2)
            b3 == [named.builder EXCEPT
                      !.nodes[c].id = named.result,
                      !.nodes[c].path = id_to_path(named.result)]
            inner == chunk_children(start_children(b3), ex.tree, x.children)
        IN  [builder |-> end_children(inner.builder), tree |-> inner.tree,
             next |-> ex.next]
        ELSE [builder |-> builder, tree |-> tree, next |-> x.next]

chunk_children(builder, tree, it) ==
    IF it = Null THEN [builder |-> builder, tree |-> tree]
    ELSE LET r == chunk_nodes(builder, tree, it)
         IN  chunk_children(r.builder, r.tree, r.next)

\* chunk_document: the chunk store, its root, and what is left of the tree
chunk_document(tree) ==
    LET r == chunk_children(NoChunks, tree, tree.root)
        rel == release(r.builder)
    IN  [tree |-> r.tree, chunks |-> rel.tree.nodes, root |-> rel.root]

----------------------------------------------------------------------------
(* The inlining passes.  cs is the chunk store, xn the xml node store. *)

\* inline_chunks; nopath is what reading the path of a null parent yields
RECURSIVE inline_chunks(_, _, _)
RECURSIVE inline_chunks_from(_, _, _)
inline_chunks(cs, c, nopath) ==
    LET path == IF cs[c].parent = Null THEN nopath ELSE cs[cs[c].parent].path
        cs1 == [cs EXCEPT ![c].inline = TRUE, ![c].path = path]
    IN  inline_chunks_from(cs1, cs1[c].children, nopath)

inline_chunks_from(cs, it, nopath) ==
    IF it = Null THEN cs
    ELSE inline_chunks_from(inline_chunks(cs, it, nopath), cs[it].next, nopath)

\* inline_sections
RECURSIVE inline_sections(_, _, _, _)
RECURSIVE inline_leading(_, _, _)
RECURSIVE inline_sections_from(_, _, _, _)
\* inline_sections, were every section among the children inlined and not
\* only the leading ones
RECURSIVE inline_every_section(_, _, _)
inline_every_section(cs, xn, it) ==
    IF it = Null THEN [cs |-> cs, it |-> it]
    ELSE LET later == inline_every_section(
                        IF xn[cs[it].root].name = <<"s", "e", "c", "t", "i", "o", "n">>
                        THEN inline_chunks(cs, it, <<>>) ELSE cs,
                        xn, cs[it].next)
         IN  [cs |-> later.cs,
              it |-> IF later.cs[it].inline THEN later.it ELSE it]

inline_leading(cs, xn, it) ==
    IF it # Null /\ xn[cs[it].root].name = <<"s", "e", "c", "t", "i", "o", "n">>
    THEN inline_leading(inline_chunks(cs, it, <<>>), xn, cs[it].next)
    ELSE [cs |-> cs, it |-> it]

inline_sections_from(cs, xn, it, depth) ==
    IF it = Null THEN cs
    ELSE inline_sections_from(
            inline_sections(cs, xn, it, depth), xn, cs[it].next, depth)

inline_sections(cs, xn, c, depth0) ==
    LET depth == IF xn[cs[c].root].name = <<"s", "e", "c", "t", "i", "o", "n">> /\ depth0 > 1
                 THEN depth0 - 1 ELSE depth0
        lead == IF depth = 0 THEN inline_leading(cs, xn, cs[c].children)
                ELSE [cs |-> cs, it |-> cs[c].children]
    IN  inline_sections_from(lead.cs, xn, lead.it, depth)

----------------------------------------------------------------------------
(* The id index: a function from ids to link targets *)

NoPaths == <<>>

\* emplace, were the value of a key that is present replaced
emplace_or_assign(m, k, v) == (k :> v) @@ m

\* unordered_map::emplace: the first value of a key is kept
emplace(m, k, v) == IF k \in DOMAIN m THEN m ELSE m @@ (k :> v)

RECURSIVE get_id_paths_impl2(_, _, _, _)
RECURSIVE get_id_paths_impl2_from(_, _, _, _)
get_id_paths_impl2(m, path, xn, n) ==
    IF n = Null THEN m
    ELSE LET x == xn[n]
             m1 == IF HasAttribute(x, <<"i", "d">>)
                   THEN emplace(m, AttributeValue(x, <<"i", "d">>),
                                path \o <<"#">> \o AttributeValue(x, <<"i", "d">>))
                   ELSE m
         IN  get_id_paths_impl2_from(m1, path, xn, x.children)

get_id_paths_impl2_from(m, path, xn, it) ==
    IF it = Null THEN m
    ELSE get_id_paths_impl2_from(
            get_id_paths_impl2(m, path, xn, it), path, xn, xn[it].next)

RECURSIVE get_id_paths_impl(_, _, _, _)
RECURSIVE get_id_paths_impl_from(_, _, _, _)
get_id_paths_impl(m, cs, xn, c) ==
    LET p == IF cs[c].inline THEN cs[c].path \o <<"#">> \o cs[c].id
             ELSE cs[c].path
        m1 == emplace(m, cs[c].id, p)
        m2 == get_id_paths_impl2(m1, cs[c].path, xn, cs[c].title)
        m3 == get_id_paths_impl2(m2, cs[c].path, xn, cs[c].info)
        m4 == get_id_paths_impl2(m3, cs[c].path, xn, cs[c].root)
    IN  get_id_paths_impl_from(m4, cs, xn, cs[c].children)

get_id_paths_impl_from(m, cs, xn, it) ==
    IF it = Null THEN m
    ELSE get_id_paths_impl_from(
            get_id_paths_impl(m, cs, xn, it), cs, xn, cs[it].next)

\* get_id_paths
get_id_paths(cs, xn, c) ==
    IF c # Null THEN get_id_paths_impl(NoPaths, cs, xn, c) ELSE NoPaths

\* relative_path_from
RECURSIVE diff_start(_, _, _, _)
diff_start(path, base, i, start) ==
    IF i <= Len(path) /\ i <= Len(base) /\ path[i] = base[i]
    THEN diff_start(path, base, i + 1, IF path[i] = "/" THEN i + 1 ELSE start)
    ELSE start

RECURSIVE ups(_)
ups(n) == IF n = 0 THEN <<>> ELSE <<".", ".", "/">> \o ups(n - 1)

relative_path_from(path, base) ==
    LET start == diff_start(path, base, 1, 1)
        up_count == Cardinality({i \in start..Len(base) : base[i] = "/"})
    IN  ups(up_count) \o SubSeq(path, start, Len(path))

----------------------------------------------------------------------------
(* The HTML generator.  gen is the html_gen of a page: html is the text    *)
(* written so far, a sequence of tokens: <<"<", name>> the start of a      *)
(* tag, <<"attr", name, value>> an attribute, <<">">> and <<"/>">> the end *)
(* of a start tag, <<"</", name>> a close tag, <<"text", s>> characters.   *)
(* gen also carries what rendering reads and writes outside the page: the  *)
(* xml node store (a footnote gets an attribute), the function-local       *)
(* static footnote_number, and whether a null pointer was dereferenced     *)
(* (ub) or an assert failed (asserted).  iterating says that              *)
(* generate_footnotes is in its loop over gen.footnotes, pushed that a     *)
(* footnote was pushed onto that vector during the loop: the page is as    *)
(* html says if no such push_back moved the vector.                        *)

html_gen(ip, p, xn, fn, ic) ==
    [id_paths |-> ip, path |-> p, html |-> <<>>, in_contents |-> ic,
     footnotes |-> <<>>, xn |-> xn, footnote_number |-> fn, ub |-> FALSE,
     callout_numbers |-> <<>>,
     asserted |-> FALSE, iterating |-> FALSE, pushed |-> FALSE]

Emit(gen, token) == [gen EXCEPT !.html = Append(@, token)]

\* several pieces of text appended one after the other
EmitAll(gen, tokens) == [gen EXCEPT !.html = @ \o tokens]

\* the text each of the tag functions appends
Start(name) == <<"<", name>>

Attribute(name, value) == <<"attr", name, value>>

\* the id attribute tag_start_with_id writes for x, if it writes one
IdOf(gen, x) ==
    IF ~gen.in_contents /\ HasAttribute(gen.xn[x], <<"i", "d">>)
    THEN <<Attribute("id", AttributeValue(gen.xn[x], <<"i", "d">>))>>
    ELSE <<>>

Close(name) == <<"</", name>>

Text(s) == <<"text", s>>

Graphics(path, fallback) == <<"graphics", path, fallback>>

tag_attribute(gen, name, value) == Emit(gen, Attribute(name, value))

tag_start(gen, name) == Emit(gen, Start(name))

tag_start_with_id(gen, name, x) ==
    EmitAll(gen, <<Start(name)>> \o IdOf(gen, x))

tag_end(gen) == Emit(gen, <<">">>)

tag_end_self_close(gen) == Emit(gen, <<"/>">>)

open_tag(gen, name) == EmitAll(gen, <<Start(name), <<">">>>>)

open_tag_with_id(gen, name, x) ==
    EmitAll(gen, <<Start(name)>> \o IdOf(gen, x) \o <<<<">">>>>)

close_tag(gen, name) == Emit(gen, Close(name))

tag_self_close(gen, name, x) ==
    EmitAll(gen, <<Start(name)>> \o IdOf(gen, x) \o <<<<"/>">>>>)

\* graphics_tag: an img under gen.graphics_path, or the fallback text
graphics_tag(gen, path, fallback) == Emit(gen, Graphics(path, fallback))

\* utils.hpp encode_string
encode_char(c) ==
    CASE c = "<" -> <<"&", "l", "t", ";">>
      [] c = ">" -> <<"&", "g", "t", ";">>
      [] c = "&" -> <<"&", "a", "m", "p", ";">>
      [] c = "\"" -> <<"&", "q", "u", "o", "t", ";">>
      [] OTHER -> <<c>>

encode_string(s) == Flatten([i \in 1..Len(s) |-> encode_char(s[i])])

\* the tags of NODE_MAP and the HTML tag of each
NODE_MAP ==
    (<<"p", "a", "r", "a">> :> "p") @@ (<<"s", "i", "m", "p", "a", "r", "a">> :> "div") @@ (<<"o", "r", "d", "e", "r", "e", "d", "l", "i", "s", "t">> :> "ol")
    @@ (<<"i", "t", "e", "m", "i", "z", "e", "d", "l", "i", "s", "t">> :> "ul") @@ (<<"l", "i", "s", "t", "i", "t", "e", "m">> :> "li")
    @@ (<<"b", "l", "o", "c", "k", "q", "u", "o", "t", "e">> :> "blockquote") @@ (<<"q", "u", "o", "t", "e">> :> "q")
    @@ (<<"c", "o", "d", "e">> :> "code") @@ (<<"m", "a", "c", "r", "o", "n", "n", "a", "m", "e">> :> "code")
    @@ (<<"c", "l", "a", "s", "s", "n", "a", "m", "e">> :> "code") @@ (<<"l", "i", "t", "e", "r", "a", "l">> :> "tt")
    @@ (<<"s", "u", "b", "s", "c", "r", "i", "p", "t">> :> "sub") @@ (<<"s", "u", "p", "e", "r", "s", "c", "r", "i", "p", "t">> :> "sup")
    @@ (<<"s", "e", "c", "t", "i", "o", "n">> :> "div") @@ (<<"a", "n", "c", "h", "o", "r">> :> "span")
    @@ (<<"t", "i", "t", "l", "e">> :> "h3") @@ (<<"b", "r", "i", "d", "g", "e", "h", "e", "a", "d">> :> "h3")
    @@ (<<"c", "a", "l", "l", "o", "u", "t", "l", "i", "s", "t">> :> "div")

\* the tags of NODE_MAP_CLASS, the HTML tag and the class of each
NODE_MAP_CLASS ==
    (<<"p", "r", "o", "g", "r", "a", "m", "l", "i", "s", "t", "i", "n", "g">> :> <<"pre", "programlisting">>)
    @@ (<<"s", "i", "d", "e", "b", "a", "r">> :> <<"div", "sidebar">>)
    @@ (<<"w", "a", "r", "n", "i", "n", "g">> :> <<"div", "warning">>)
    @@ (<<"c", "a", "u", "t", "i", "o", "n">> :> <<"div", "caution">>)
    @@ (<<"i", "m", "p", "o", "r", "t", "a", "n", "t">> :> <<"div", "important">>)
    @@ (<<"n", "o", "t", "e">> :> <<"div", "note">>)
    @@ (<<"t", "i", "p">> :> <<"div", "tip">>)
    @@ (<<"r", "e", "p", "l", "a", "c", "e", "a", "b", "l", "e">> :> <<"em", "replaceable">>)

\* the attribute parser_footnote records a footnote's label under
footnote_label_attribute == <<"(", "(", "(", "f", "o", "o", "t", "n", "o", "t", "e", "-", "l", "a", "b", "e", "l", ")", ")", ")">>

\* statements in sequence: F of the value v, v being computed once
Then(v, F(_)) == CHOOSE r \in {F(g) : g \in {v}} : TRUE

RECURSIVE document(_, _)
RECURSIVE document_from(_, _)

\* document_children; x is not null
document_children(gen, x) == document_from(gen, gen.xn[x].children)

tag(gen, name, x) ==
    Then(open_tag_with_id(gen, name, x),
         LAMBDA g1 : close_tag(document_children(g1, x), name))

\* NODE_RULE(ulink)
parser_ulink(gen, x) ==
    LET href == IF HasAttribute(gen.xn[x], <<"u", "r", "l">>)
                THEN <<Attribute("href", AttributeValue(gen.xn[x], <<"u", "r", "l">>))>>
                ELSE <<>>
    IN  Then(EmitAll(gen,
                <<Start("a")>> \o IdOf(gen, x) \o href \o <<<<">">>>>),
             LAMBDA g1 : close_tag(document_children(g1, x), "a"))

\* NODE_RULE(link), were the href written whether or not the linkend is
\* found, empty when it is not
parser_link_with_empty_href(gen, x) ==
    LET found == /\ HasAttribute(gen.xn[x], <<"l", "i", "n", "k", "e", "n", "d">>)
                 /\ AttributeValue(gen.xn[x], <<"l", "i", "n", "k", "e", "n", "d">>) \in DOMAIN gen.id_paths
        href == <<Attribute("href",
                    IF found
                    THEN relative_path_from(
                            gen.id_paths[AttributeValue(gen.xn[x], <<"l", "i", "n", "k", "e", "n", "d">>)],
                            gen.path)
                    ELSE <<>>)>>
    IN  Then(EmitAll(gen,
                <<Start("a")>> \o IdOf(gen, x) \o href \o <<<<">">>>>),
             LAMBDA g1 : close_tag(document_children(g1, x), "a"))

\* NODE_RULE(link)
parser_link(gen, x) ==
    LET found == /\ HasAttribute(gen.xn[x], <<"l", "i", "n", "k", "e", "n", "d">>)
                 /\ AttributeValue(gen.xn[x], <<"l", "i", "n", "k", "e", "n", "d">>) \in DOMAIN gen.id_paths
        href == IF found
                THEN <<Attribute("href",
                        relative_path_from(
                            gen.id_paths[AttributeValue(gen.xn[x], <<"l", "i", "n", "k", "e", "n", "d">>)],
                            gen.path))>>
                ELSE <<>>
    IN  Then(EmitAll(gen,
                <<Start("a")>> \o IdOf(gen, x) \o href \o <<<<">">>>>),
             LAMBDA g1 : close_tag(document_children(g1, x), "a"))

\* NODE_RULE(phrase)
parser_phrase(gen, x) ==
    LET class == IF HasAttribute(gen.xn[x], <<"r", "o", "l", "e">>)
                 THEN <<Attribute("class", AttributeValue(gen.xn[x], <<"r", "o", "l", "e">>))>>
                 ELSE <<>>
    IN  Then(EmitAll(gen,
                <<Start("span")>> \o IdOf(gen, x) \o class \o <<<<">">>>>),
             LAMBDA g1 : close_tag(document_children(g1, x), "span"))

\* NODE_RULE(footnote)
parser_footnote(gen, x) ==
    LET number == gen.footnote_number + 1
        footnote_label == lexical_cast(number)
    IN  Then([gen EXCEPT
                  !.footnote_number = number,
                  !.xn[x].attributes =
                      Append(@, <<footnote_label_attribute, footnote_label>>),
                  !.footnotes = Append(@, x),
                  !.pushed = @ \/ gen.iterating],
             LAMBDA g1 :
                EmitAll(g1,
                    <<Start("a")>> \o IdOf(g1, x)
                    \o <<Attribute("href", <<"#", "f", "o", "o", "t", "n", "o", "t", "e", "-">> \o footnote_label),
                         <<">">>,
                         Start("sup"), Attribute("class", <<"f", "o", "o", "t", "n", "o", "t", "e">>), <<">">>,
                         Text(<<"[">> \o footnote_label \o <<"]">>),
                         Close("sup"), Close("a")>>))

\* NODE_MAP_CLASS
tag_with_class(gen, name, class, x) ==
    Then(EmitAll(gen,
            <<Start(name)>> \o IdOf(gen, x)
            \o <<Attribute("class", class), <<">">>>>),
         LAMBDA g1 : close_tag(document_children(g1, x), name))

\* NODE_RULE(callout): data->second.number is read whether or not the
\* table has an entry for the id; without one, data is the end iterator
parser_callout(gen, x) ==
    LET e == gen.xn[x]
        found == /\ HasAttribute(e, <<"i", "d">>)
                 /\ AttributeValue(e, <<"i", "d">>) \in DOMAIN gen.callout_numbers
        data == IF found THEN gen.callout_numbers[AttributeValue(e, <<"i", "d">>)]
                ELSE [link_id |-> <<>>, number |-> 0]
        linked == /\ found
                  /\ data.link_id # <<>>
                  /\ data.link_id \in DOMAIN gen.id_paths
        number == lexical_cast(data.number)
    IN  Then(EmitAll([gen EXCEPT !.ub = @ \/ ~found],
                <<Start("div")>> \o IdOf(gen, x) \o <<<<">">>>>
                \o (IF linked
                    THEN <<Start("a"),
                           Attribute("href",
                                relative_path_from(gen.id_paths[data.link_id],
                                                   gen.path)),
                           <<">">>>>
                    ELSE <<>>)
                \o <<Graphics(<<"/", "c", "a", "l", "l", "o", "u", "t", "s", "/">> \o number \o <<".", "p", "n", "g">>,
                              <<"(">> \o number \o <<")">>)>>
                \o (IF linked THEN <<Close("a")>> ELSE <<>>)
                \o <<Text(<<" ">>)>>),
             LAMBDA g1 : close_tag(document_children(g1, x), "div"))

\* NODE_RULE(co)
parser_co(gen, x) ==
    LET e == gen.xn[x]
        linkends == IF HasAttribute(e, <<"l", "i", "n", "k", "e", "n", "d", "s">>)
                    THEN AttributeValue(e, <<"l", "i", "n", "k", "e", "n", "d", "s">>) ELSE <<>>
        found == /\ HasAttribute(e, <<"l", "i", "n", "k", "e", "n", "d", "s">>)
                 /\ linkends \in DOMAIN gen.callout_numbers
        linked == /\ HasAttribute(e, <<"l", "i", "n", "k", "e", "n", "d", "s">>)
                  /\ linkends \in DOMAIN gen.id_paths
        number == lexical_cast(gen.callout_numbers[linkends].number)
    IN  EmitAll(gen,
            (IF linked
             THEN <<Start("a"),
                    Attribute("href",
                        relative_path_from(gen.id_paths[linkends], gen.path)),
                    <<">">>>>
             ELSE <<>>)
            \o (IF found
                THEN <<Graphics(<<"/", "c", "a", "l", "l", "o", "u", "t", "s", "/">> \o number \o <<".", "p", "n", "g">>,
                                <<"(">> \o number \o <<")">>)>>
                ELSE <<Text(<<"(", "0", ")">>)>>)
            \o (IF linked THEN <<Close("a")>> ELSE <<>>))

\* document: the rule of the element's tag.  The rules of sbr, emphasis,
\* inlinemediaobject, variablelist, table and informaltable are not
\* modelled; no source text of the model uses these tags.
document(gen, x) ==
    LET e == gen.xn[x]
    IN  IF e.type = "text" THEN Emit(gen, Text(e.contents))
        ELSE IF e.name \in DOMAIN NODE_MAP THEN tag(gen, NODE_MAP[e.name], x)
        ELSE IF e.name \in DOMAIN NODE_MAP_CLASS
        THEN tag_with_class(gen, NODE_MAP_CLASS[e.name][1],
                            NODE_MAP_CLASS[e.name][2], x)
        ELSE IF e.name = <<"u", "l", "i", "n", "k">> THEN parser_ulink(gen, x)
        ELSE IF e.name = <<"l", "i", "n", "k">> THEN parser_link(gen, x)
        ELSE IF e.name = <<"p", "h", "r", "a", "s", "e">> THEN parser_phrase(gen, x)
        ELSE IF e.name = <<"f", "o", "o", "t", "n", "o", "t", "e">> THEN parser_footnote(gen, x)
        ELSE IF e.name = <<"c", "a", "l", "l", "o", "u", "t">> THEN parser_callout(gen, x)
        ELSE IF e.name = <<"c", "o">> THEN parser_co(gen, x)
        ELSE document_children(gen, x)

\* the loop of document_children
document_from(gen, it) ==
    IF it = Null THEN gen
    ELSE Then(document(gen, it),
              LAMBDA g1 : document_from(g1, g1.xn[it].next))

\* generate_footnotes: the label is the first label attribute of the
\* footnote; its id attribute is read whether or not it has one
RECURSIVE generate_footnotes_from(_, _)
generate_footnotes_from(gen, i) ==
    IF i > Len(gen.footnotes) THEN gen
    ELSE
    LET x == gen.footnotes[i]
        footnote_label == AttributeValue(gen.xn[x], footnote_label_attribute)
        has_id == HasAttribute(gen.xn[x], <<"i", "d">>)
    IN  Then(EmitAll([gen EXCEPT !.ub = @ \/ ~has_id],
                <<Start("div"),
                  Attribute("id", <<"f", "o", "o", "t", "n", "o", "t", "e", "-">> \o footnote_label),
                  Attribute("class", <<"f", "o", "o", "t", "n", "o", "t", "e">>), <<">">>,
                  Start("a"),
                  Attribute("href",
                    <<"#">> \o (IF has_id THEN AttributeValue(gen.xn[x], <<"i", "d">>)
                                ELSE <<>>)),
                  <<">">>, Start("sup"), <<">">>,
                  Text(<<"[">> \o footnote_label \o <<"]">>),
                  Close("sup"), Close("a")>>),
             LAMBDA g1 :
                Then(close_tag(document_children(g1, x), "div"),
                     LAMBDA g2 : generate_footnotes_from(g2, i + 1)))

generate_footnotes(gen) ==
    IF gen.footnotes # <<>>
    THEN Then(EmitAll([gen EXCEPT !.iterating = TRUE],
                <<Start("div"), Attribute("class", <<"f", "o", "o", "t", "n", "o", "t", "e", "s">>), <<">">>,
                  Text(<<"<", "b", "r", "/", ">">>), Text(<<"<", "h", "r", "/", ">">>)>>),
              LAMBDA g1 :
                Then(generate_footnotes_from(g1, 1),
                     LAMBDA g2 :
                        close_tag([g2 EXCEPT !.iterating = FALSE], "div")))
    ELSE gen

\* generate_contents_html: x is dereferenced without a test for null
generate_contents_html(gen, x) ==
    IF x = Null THEN [gen EXCEPT !.ub = TRUE, !.in_contents = FALSE]
    ELSE Then([gen EXCEPT !.in_contents = TRUE],
              LAMBDA g1 :
                [document_children(g1, x) EXCEPT !.in_contents = FALSE])

\* callout_numbers[id], made with link_id empty and number 0 when the
\* table has no entry for id
callout_entry(numbers, id) ==
    IF id \in DOMAIN numbers THEN numbers[id]
    ELSE [link_id |-> <<>>, number |-> 0]

\* number_callouts2: numbers is the table, count the counter of the list
RECURSIVE number_callouts2(_, _, _)
number_callouts2(st, xn, x) ==
    IF x = Null THEN st
    ELSE
    LET e == xn[x]
        id == AttributeValue(e, <<"i", "d">>)
        st1 == IF /\ e.type = "node"
                  /\ e.name = <<"c", "a", "l", "l", "o", "u", "t">>
                  /\ HasAttribute(e, <<"i", "d">>)
               THEN [numbers |->
                        (id :> [callout_entry(st.numbers, id)
                                    EXCEPT !.number = st.count + 1])
                        @@ st.numbers,
                     count |-> st.count + 1]
               ELSE st
    IN  number_callouts2(number_callouts2(st1, xn, e.children), xn, e.next)

\* number_callouts
RECURSIVE number_callouts(_, _, _)
number_callouts(numbers, xn, x) ==
    IF x = Null THEN numbers
    ELSE
    LET e == xn[x]
        linkends == AttributeValue(e, <<"l", "i", "n", "k", "e", "n", "d", "s">>)
        id == AttributeValue(e, <<"i", "d">>)
        n1 == IF e.type # "node" THEN numbers
              ELSE IF e.name = <<"c", "a", "l", "l", "o", "u", "t", "l", "i", "s", "t">>
              THEN number_callouts2([numbers |-> numbers, count |-> 0],
                                    xn, x).numbers
              ELSE IF /\ e.name = <<"c", "o">>
                      /\ HasAttribute(e, <<"i", "d">>)
                      /\ HasAttribute(e, <<"l", "i", "n", "k", "e", "n", "d", "s">>)
              THEN (linkends :> [callout_entry(numbers, linkends)
                                    EXCEPT !.link_id = id])
                   @@ numbers
              ELSE numbers
    IN  number_callouts(number_callouts(n1, xn, e.children), xn, e.next)

\* generate_html
generate_html(gen, x) ==
    IF x # Null
    THEN document(
            [gen EXCEPT !.callout_numbers = number_callouts(<<>>, gen.xn, x)],
            x)
    ELSE gen

\* generate_contents_impl
RECURSIVE generate_contents_impl(_, _, _, _)
RECURSIVE generate_contents_from(_, _, _, _)
generate_contents_impl(gen, cs, page, chunk_root) ==
    close_tag(
        generate_contents_from(
            open_tag(gen, "ul"), cs, page, cs[chunk_root].children),
        "ul")

\* the loop of generate_contents_impl
generate_contents_from(gen, cs, page, it) ==
    IF it = Null THEN gen
    ELSE
    Then(IF cs[it].id \in DOMAIN gen.id_paths
         THEN EmitAll(gen,
                <<Start("li"), <<">">>, Start("a"),
                  Attribute("href",
                    encode_string(relative_path_from(
                        gen.id_paths[cs[it].id], cs[page].path))),
                  <<">">>>>)
         ELSE open_tag(gen, "li"),
    LAMBDA g1 :
    Then(IF cs[it].id \in DOMAIN g1.id_paths
         THEN close_tag(generate_contents_html(g1, cs[it].title), "a")
         ELSE generate_contents_html(g1, cs[it].title),
    LAMBDA g2 :
    Then(IF cs[it].children # Null
         THEN generate_contents_impl(g2, cs, page, it)
         ELSE g2,
    LAMBDA g3 :
    Then(close_tag(g3, "li"),
    LAMBDA g4 : generate_contents_from(g4, cs, page, cs[it].next)))))

\* generate_contents
generate_contents(gen, cs, root) ==
    IF cs[root].children # Null
    THEN Then(EmitAll(gen,
                <<Start("div"), Attribute("class", <<"t", "o", "c">>), <<">">>,
                  Start("p"), <<">">>, Start("b"), <<">">>,
                  Text(<<"T", "a", "b", "l", "e", " ", "o", "f", " ", "c", "o", "n", "t", "e", "n", "t", "s">>),
                  Close("b"), Close("p")>>),
              LAMBDA g2 :
                close_tag(generate_contents_impl(g2, cs, root, root), "div"))
    ELSE gen

\* generate_inline_chunks
RECURSIVE generate_inline_chunks(_, _, _)
RECURSIVE generate_inline_chunks_from(_, _, _)
generate_inline_chunks(gen, cs, root) ==
    Then(EmitAll(gen,
            <<Start("div"), Attribute("id", cs[root].id), <<">">>>>),
    LAMBDA g1 :
    Then(generate_html(g1, cs[root].title),
    LAMBDA g2 :
    Then(generate_html(g2, cs[root].info),
    LAMBDA g3 :
    Then(generate_contents(g3, cs, root),
    LAMBDA g4 :
    Then(generate_html(g4, cs[root].root),
    LAMBDA g5 :
        close_tag(
            generate_inline_chunks_from(g5, cs, cs[root].children),
            "div"))))))

\* the loop of generate_inline_chunks, with its assert(it->inline_)
generate_inline_chunks_from(gen, cs, it) ==
    IF it = Null THEN gen
    ELSE Then([gen EXCEPT !.asserted = @ \/ ~cs[it].inline],
         LAMBDA g1 :
         Then(generate_inline_chunks(g1, cs, it),
         LAMBDA g2 : generate_inline_chunks_from(g2, cs, cs[it].next)))

\* the first child of c that is not inline, null when there is none
RECURSIVE first_not_inline(_, _)
first_not_inline(cs, it) ==
    IF it = Null \/ ~cs[it].inline THEN it
    ELSE first_not_inline(cs, cs[it].next)

\* the leading inline children of a page, rendered
RECURSIVE generate_leading_inline(_, _, _)
generate_leading_inline(gen, cs, it) ==
    IF it # Null /\ cs[it].inline
    THEN Then(generate_inline_chunks(gen, cs, it),
              LAMBDA g1 : generate_leading_inline(g1, cs, cs[it].next))
    ELSE gen

\* one navigation link of generate_chunks_impl
nav_link(href, key, image, fallback) ==
    <<Start("a"), Attribute("href", href), Attribute("accesskey", key),
      <<">">>, Graphics(image, fallback), Close("a")>>

\* generate_chunks_impl up to the call of writer.write_file: the page of
\* chunk_root, rendered into gen (options.css_path is empty)
generate_page(gen, cs, chunk_root) ==
    LET c == cs[chunk_root]
        child == first_not_inline(cs, c.children)
        next == IF child # Null THEN child ELSE c.next
        prev == IF c.prev # Null THEN c.prev ELSE c.parent
        space == <<Text(<<" ">>)>>
        nav_prev == IF prev # Null
                    THEN nav_link(relative_path_from(cs[prev].path, c.path),
                                  "p", "/prev.png", "prev") \o space
                    ELSE <<>>
        nav_up == IF c.parent # Null
                  THEN nav_link(relative_path_from(cs[c.parent].path, c.path),
                                "u", "/up.png", "up") \o space
                       \o nav_link(relative_path_from(<<"i", "n", "d", "e", "x", ".", "h", "t", "m", "l">>, c.path),
                                   "h", "/home.png", "home")
                       \o (IF next # Null THEN space ELSE <<>>)
                  ELSE <<>>
        nav_next == IF next # Null
                    THEN nav_link(relative_path_from(cs[next].path, c.path),
                                  "n", "/next.png", "next")
                    ELSE <<>>
    IN  Then(EmitAll(gen,
                <<Start("div"), Attribute("class", <<"s", "p", "i", "r", "i", "t", "-", "n", "a", "v">>), <<">">>>>
                \o nav_prev \o nav_up \o nav_next \o <<Close("div")>>),
        LAMBDA g5 :
        Then(generate_html(g5, c.title),
        LAMBDA g6 :
        Then(generate_html(g6, c.info),
        LAMBDA g7 :
        Then(generate_contents(g7, cs, chunk_root),
        LAMBDA g8 :
        Then(generate_html(g8, c.root),
        LAMBDA g9 :
        Then(generate_leading_inline(g9, cs, c.children),
        LAMBDA g10 : generate_footnotes(g10)))))))

\* the children generate_chunks_impl calls itself for, after the page is
\* written: those after the leading inline ones
RECURSIVE siblings_from(_, _)
siblings_from(cs, it) ==
    IF it = Null THEN <<>> ELSE <<it>> \o siblings_from(cs, cs[it].next)

pages_below(cs, chunk_root) ==
    siblings_from(cs, first_not_inline(cs, cs[chunk_root].children))

----------------------------------------------------------------------------
(* The parse loop of boostbook_to_html, one action per way an iteration    *)
(* of the loop can go.  While eof is false the environment supplies the    *)
(* text of the iteration: a whole construct (Lexemes), or the last piece   *)
(* of the source (FinalLexemes).                                           *)

\* what a read through an iterator equal to end can yield
Garbage == {"\"", "x"}

\* the pieces the source texts of the parser specification are made of
Pieces ==
    {<<"<">>, <<"<", "a">>, <<"<", "/", "a">>, <<"<", "/", "A">>,
     <<">">>, <<"/">>, <<"=", "\"", "\"">>,
     <<" ", "a">>, <<"=">>, <<"\"">>, <<"<", "?">>, <<"?">>, <<"<", "!">>}

\* the sequences of at most MaxPieces pieces
PieceTexts == UNION {[1..n -> Pieces] : n \in 0..MaxPieces}

\* the start tags, the other whole constructs and the last pieces of a
\* source text the environment supplies in each mode
StartTags(m) ==
    CASE m = "doc" -> {<<"<", "b", "o", "o", "k", ">">>, <<"<", "s", "e", "c", "t", "i", "o", "n", ">">>, <<"<", "t", "i", "t", "l", "e", ">">>, <<"<", "p", "a", "r", "a", ">">>}
      [] m = "ids" ->
            {<<"<", "b", "o", "o", "k", ">">>, <<"<", "p", "a", "r", "a", " ", "i", "d", "=", "\"", "b", "\"", ">">>, <<"<", "l", "i", "n", "k", ">">>, <<"<", "l", "i", "n", "k", " ", "l", "i", "n", "k", "e", "n", "d", "=", "\"", "b", "\"", ">">>}
      [] m = "notes" -> {<<"<", "b", "o", "o", "k", ">">>, <<"<", "t", "i", "t", "l", "e", ">">>, <<"<", "f", "o", "o", "t", "n", "o", "t", "e", " ", "i", "d", "=", "\"", "f", "\"", ">">>}
      [] m = "dups" -> {<<"<", "b", "o", "o", "k", ">">>, <<"<", "b", "o", "o", "k", " ", "i", "d", "=", "\"", "b", "\"", ">">>, <<"<", "p", "a", "r", "a", " ", "i", "d", "=", "\"", "b", "\"", ">">>}
      [] m = "pages" ->
            {<<"<", "b", "o", "o", "k", ">">>, <<"<", "b", "o", "o", "k", " ", "i", "d", "=", "\"", "p", "a", "g", "e", "-", "1", "\"", ">">>, <<"<", "b", "o", "o", "k", " ", "i", "d", "=", "\"", "\"", ">">>,
             <<"<", "b", "o", "o", "k", " ", "i", "d", "=", "\"", "i", "n", "d", "e", "x", "\"", ">">>}
      [] OTHER -> {}

Lexemes(m) ==
    CASE m = "doc" -> {<<"<", "/", "b", "o", "o", "k", ">">>, <<"<", "/", "s", "e", "c", "t", "i", "o", "n", ">">>, <<"<", "/", "t", "i", "t", "l", "e", ">">>, <<"<", "/", "p", "a", "r", "a", ">">>}
      [] m = "ids" -> {<<"<", "/", "b", "o", "o", "k", ">">>, <<"<", "/", "p", "a", "r", "a", ">">>, <<"<", "/", "l", "i", "n", "k", ">">>}
      [] m = "notes" -> {<<"<", "/", "b", "o", "o", "k", ">">>, <<"<", "/", "t", "i", "t", "l", "e", ">">>, <<"<", "/", "f", "o", "o", "t", "n", "o", "t", "e", ">">>}
      [] m = "dups" -> {<<"<", "/", "b", "o", "o", "k", ">">>, <<"<", "/", "p", "a", "r", "a", ">">>}
      [] m = "pages" -> {<<"<", "/", "b", "o", "o", "k", ">">>}
      [] OTHER -> {}

FinalLexemes(m) ==
    CASE m = "doc" -> {<<>>, <<"x">>, <<"<">>}
      [] OTHER -> {<<>>, <<"<">>}

NodeBound(m) == IF m = "notes" THEN MaxNoteNodes ELSE MaxNodes

Sources ==
    IF eof THEN {[s |-> rest, last |-> TRUE]}
    ELSE {[s |-> l, last |-> FALSE] :
            l \in IF Len(xt.nodes) < NodeBound(mode)
                  THEN StartTags(mode) \cup Lexemes(mode)
                  ELSE Lexemes(mode)}
         \cup {[s |-> l, last |-> TRUE] : l \in FinalLexemes(mode)}

\* the text node the iteration adds for the characters before the next '<'
AddText(t, s) ==
    LET lt == read_to(s, 1, "<")
        t1 == Alloc(t, text_node(SubSeq(s, 1, lt - 1)))
    IN  IF lt # 1 THEN add_element(t1, Len(t1.nodes)) ELSE t

\* Continue, were the exception caught in boostbook_to_html and the
\* conversion carried on with the elements read so far
ContinueAfterError(r, src) ==
    /\ r.kind = "ok" /\ ~src.last => r.it = End(src.s)
    /\ pc' = CASE r.kind = "ok" -> "parse"
               [] r.kind = "error" -> "chunk"
               [] OTHER -> "undefined"
    /\ rest' = IF r.kind = "ok" THEN SubSeq(src.s, r.it, Len(src.s)) ELSE <<>>
    /\ pos' = IF r.kind = "ok" THEN pos + r.it - 1 ELSE pos
    /\ source' = IF eof THEN source ELSE source \o src.s
    /\ eof' = src.last
    /\ xt' = r.xt
    /\ err' = IF r.kind = "error"
              THEN [msg |-> r.msg, pos |-> pos + r.at - 1]
              ELSE err
    /\ oob' = (oob \/ r.oob)
    /\ UNCHANGED <<mode, chunked_output, chunk_vars, gen_vars, call, detached>>

\* the state after a reader returned or threw
Continue(r, src) ==
    /\ r.kind = "ok" /\ ~src.last => r.it = End(src.s)
    /\ pc' = CASE r.kind = "ok" -> "parse"
               [] r.kind = "error" -> "parse_error"
               [] OTHER -> "undefined"
    /\ rest' = IF r.kind = "ok" THEN SubSeq(src.s, r.it, Len(src.s)) ELSE <<>>
    /\ pos' = IF r.kind = "ok" THEN pos + r.it - 1 ELSE pos
    /\ source' = IF eof THEN source ELSE source \o src.s
    /\ eof' = src.last
    /\ xt' = r.xt
    /\ err' = IF r.kind = "error"
              THEN [msg |-> r.msg, pos |-> pos + r.at - 1]
              ELSE err
    /\ oob' = (oob \/ r.oob)
    /\ UNCHANGED <<mode, chunked_output, chunk_vars, gen_vars, call, detached>>

\* the loop ends: no '<' is left
ParseBreak ==
    /\ pc = "parse"
    /\ \E src \in Sources :
        /\ src.last
        /\ read_to(src.s, 1, "<") = End(src.s)
        /\ pc' = "chunk"
        /\ rest' = <<>>
        /\ pos' = pos + Len(src.s)
        /\ source' = IF eof THEN source ELSE source \o src.s
        /\ eof' = TRUE
        /\ xt' = AddText(xt, src.s)
        /\ UNCHANGED <<mode, chunked_output, err, oob, chunk_vars, gen_vars,
                       call, detached>>

\* the source ends with a '<'
ParseThrowAtEnd ==
    /\ pc = "parse"
    /\ \E src \in Sources :
        LET lt == read_to(src.s, 1, "<")
        IN  /\ src.last
            /\ lt = Len(src.s)
            /\ Continue(
                Throw("Invalid tag", lt, AddText(xt, src.s), FALSE), src)

ParseQuestionMark ==
    /\ pc = "parse"
    /\ \E src \in Sources :
        LET lt == read_to(src.s, 1, "<")
        IN  /\ lt < Len(src.s)
            /\ src.s[lt + 1] = "?"
            /\ Continue(
                skip_question_mark_tag(AddText(xt, src.s), src.s, lt + 1, lt),
                src)

ParseExclamationMark ==
    /\ pc = "parse"
    /\ \E src \in Sources :
        LET lt == read_to(src.s, 1, "<")
        IN  /\ lt < Len(src.s)
            /\ src.s[lt + 1] = "!"
            /\ Continue(
                skip_exclamation_mark_tag(
                    AddText(xt, src.s), src.s, lt + 1, lt),
                src)

ParseCloseTag ==
    /\ pc = "parse"
    /\ \E src \in Sources :
        LET lt == read_to(src.s, 1, "<")
        IN  /\ lt < Len(src.s)
            /\ src.s[lt + 1] = "/"
            /\ Continue(
                read_close_tag(AddText(xt, src.s), src.s, lt + 1, lt), src)

ParseTag ==
    /\ pc = "parse"
    /\ \E src \in Sources, g \in Garbage :
        LET lt == read_to(src.s, 1, "<")
        IN  /\ lt < Len(src.s)
            /\ src.s[lt + 1] \notin {"?", "!", "/"}
            /\ Continue(
                read_tag(AddText(xt, src.s), src.s, lt + 1, lt, g), src)

Parse ==
    \/ ParseBreak
    \/ ParseThrowAtEnd
    \/ ParseQuestionMark
    \/ ParseExclamationMark
    \/ ParseCloseTag
    \/ ParseTag

----------------------------------------------------------------------------
(* boostbook_to_html after the parse loop *)

NoCall == [f |-> "none"]

\* options.output_path of a single file conversion, a file of the root
\* directory
output_file == <<"o", "u", "t", ".", "h", "t", "m", "l">>

root_filename == IF chunked_output THEN <<"i", "n", "d", "e", "x", ".", "h", "t", "m", "l">> ELSE output_file

\* what reading the path_ of a chunk through a null pointer can yield, when
\* the read does not end the program
GarbagePaths == {<<>>}

\* the directories create_directories makes for the file at path
ParentPaths(path) ==
    {SubSeq(path, 1, i - 1) : i \in {j \in 1..Len(path) : path[j] = "/"}}

\* delete_nodes calls itself with the node it was to delete: it returns
\* for a null pointer only
delete_nodes_returns(n) == n = Null

ChunkDocument ==
    /\ pc = "chunk"
    /\ LET r == chunk_document(xt)
       IN  /\ xt' = r.tree
           /\ chunks' = r.chunks
           /\ chunked' = r.root
    /\ pc' = "inline"
    /\ UNCHANGED <<mode, chunked_output, source, rest, pos, eof, err, oob,
                   id_paths, gen_vars, call, detached>>

\* chunked->path_ = root_filename, for a document without a chunk
NoChunk ==
    /\ pc = "inline"
    /\ chunked = Null
    /\ pc' = "undefined"
    /\ UNCHANGED <<mode, chunked_output, parse_vars, chunk_vars, gen_vars,
                   call, detached>>

InlineSections ==
    /\ pc = "inline"
    /\ chunked # Null
    /\ chunked_output
    /\ chunks' = inline_sections(
                [chunks EXCEPT ![chunked].path = root_filename], xt.nodes,
                chunked, 0)
    /\ pc' = "index"
    /\ UNCHANGED <<mode, chunked_output, parse_vars, chunked, id_paths,
                   gen_vars, call, detached>>

\* inline_chunks(chunked) reads the path_ of the parent of the root chunk
InlineChunks ==
    /\ pc = "inline"
    /\ chunked # Null
    /\ ~chunked_output
    /\ \/ /\ pc' = "undefined"
          /\ chunks' = chunks
       \/ \E nopath \in GarbagePaths :
            /\ chunks' = inline_chunks(
                        [chunks EXCEPT ![chunked].path = root_filename], chunked,
                        nopath)
            /\ pc' = "index"
    /\ UNCHANGED <<mode, chunked_output, parse_vars, chunked, id_paths,
                   gen_vars, call, detached>>

GetIdPaths ==
    /\ pc = "index"
    /\ id_paths' = get_id_paths(chunks, xt.nodes, chunked)
    /\ pc' = "generate"
    /\ UNCHANGED <<mode, chunked_output, parse_vars, chunks, chunked, gen_vars,
                   call, detached>>

\* generate_chunked_documentation, up to the first generate_chunks_impl
GenerateChunkedDocumentation ==
    /\ pc = "generate"
    /\ dirs' = dirs \cup {<<>>}
    /\ pending' = IF chunked # Null THEN <<chunked>> ELSE <<>>
    /\ pc' = "pages"
    /\ UNCHANGED <<mode, chunked_output, parse_vars, chunk_vars, files,
                   footnote_number, asserted, failures, ret, call, detached>>

\* generate_chunks_impl for the next chunk, up to its calls of itself;
\* in_contents of the html_gen it makes is not initialized, and a footnote
\* inside a footnote is pushed onto gen.footnotes while generate_footnotes
\* iterates over it, which invalidates the iterator if the vector
\* reallocates
GenerateChunk ==
    /\ pc = "pages"
    /\ pending # <<>>
    /\ \E in_contents \in BOOLEAN :
        \E c \in {Head(pending)} :
        \E gen \in {generate_page(
                        html_gen(id_paths, chunks[c].path, xt.nodes,
                                 footnote_number, in_contents),
                        chunks, c)} :
        \E below \in {pages_below(chunks, c)} :
        \E reallocates \in {FALSE, gen.pushed},
           outcome \in {"ok", "open", "write"} :
            /\ outcome # "ok" => failures < MaxFailures
            /\ xt' = [xt EXCEPT !.nodes = gen.xn]
            /\ footnote_number' = gen.footnote_number
            /\ IF gen.ub \/ reallocates
               THEN /\ pc' = "undefined"
                    /\ UNCHANGED <<pending, files, dirs, asserted, failures>>
               ELSE /\ pc' = "pages"
                    /\ files' = Append(files,
                            [path |-> chunks[c].path, content |-> gen.html,
                             outcome |-> outcome])
                    /\ dirs' = dirs \cup ParentPaths(chunks[c].path)
                    /\ failures' = IF outcome = "ok" THEN failures
                                   ELSE failures + 1
                    /\ asserted' = (\/ asserted
                                    \/ gen.asserted
                                    \/ \E i \in 1..Len(below) :
                                        chunks[below[i]].inline)
                    /\ pending' = below \o Tail(pending)
    /\ UNCHANGED <<mode, chunked_output, source, rest, pos, eof, err, oob,
                   chunk_vars, ret, call, detached>>

\* delete_nodes(chunked) and return 0
Return ==
    /\ pc = "pages"
    /\ pending = <<>>
    /\ \/ /\ pc' = "done"
          /\ ret' = 0
       \/ /\ ~delete_nodes_returns(chunked)
          /\ pc' = "undefined"
          /\ ret' = ret
    /\ UNCHANGED <<mode, chunked_output, parse_vars, chunk_vars, pending,
                   files, dirs, footnote_number, asserted, failures, call, detached>>

Next ==
    \/ ParseBreak
    \/ ParseThrowAtEnd
    \/ ParseCloseTag
    \/ ParseTag
    \/ ChunkDocument
    \/ NoChunk
    \/ InlineSections
    \/ InlineChunks
    \/ GetIdPaths
    \/ GenerateChunkedDocumentation
    \/ GenerateChunk
    \/ Return

InitRest ==
    /\ pc = "parse"
    /\ pos = 0
    /\ xt = NoTree
    /\ err = NoError
    /\ oob = FALSE
    /\ chunks = <<>>
    /\ chunked = Null
    /\ id_paths = NoPaths
    /\ pending = <<>>
    /\ files = <<>>
    /\ dirs = {}
    /\ footnote_number = 0
    /\ asserted = FALSE
    /\ failures = 0
    /\ ret = -1
    /\ call = NoCall
    /\ detached = {}

InitConversion ==
    /\ chunked_output \in BOOLEAN
    /\ source = <<>>
    /\ rest = <<>>
    /\ eof = FALSE
    /\ InitRest

\* a conversion of a document of books, sections, titles and paragraphs
Init == mode = "doc" /\ InitConversion

\* a conversion of a document with id attributes and links
InitIds == mode = "ids" /\ InitConversion

SpecIds == InitIds /\ [][Next]_vars

\* a conversion of a document in which an id occurs more than once
InitDups == mode = "dups" /\ InitConversion

SpecDups == InitDups /\ [][Next]_vars

\* a conversion of a document of books, some with an id attribute
InitPages == mode = "pages" /\ InitConversion

SpecPages == InitPages /\ [][Next]_vars

\* a conversion of a document with footnotes
InitNotes == mode = "notes" /\ InitConversion

SpecNotes == InitNotes /\ [][Next]_vars

\* the well-formed documents of at most n books and sections, each with
\* an empty title
RECURSIVE BookDocuments(_)
BookDocuments(n) ==
    IF n = 0 THEN {<<>>}
    ELSE {<<>>} \cup UNION {
            {<<"<", "b", "o", "o", "k", ">", "<", "t", "i", "t", "l", "e", ">", "<", "/", "t", "i", "t", "l", "e", ">">> \o inner \o <<"<", "/", "b", "o", "o", "k", ">">> \o after :
                inner \in BookDocuments(k), after \in BookDocuments(n - 1 - k)}
            \cup
            {<<"<", "s", "e", "c", "t", "i", "o", "n", ">", "<", "t", "i", "t", "l", "e", ">", "<", "/", "t", "i", "t", "l", "e", ">">> \o inner \o <<"<", "/", "s", "e", "c", "t", "i", "o", "n", ">">> \o after :
                inner \in BookDocuments(k), after \in BookDocuments(n - 1 - k)}
            : k \in 0..(n - 1)}

\* a conversion of a document of nested books and sections that have
\* titles, the whole of it in the buffer
InitBooks ==
    /\ mode = "books"
    /\ chunked_output \in BOOLEAN
    /\ source \in BookDocuments(MaxBooks)
    /\ rest = source
    /\ eof = TRUE
    /\ InitRest

NextBooks ==
    \/ ParseBreak
    \/ ParseCloseTag
    \/ ParseTag
    \/ ChunkDocument
    \/ NoChunk
    \/ InlineSections
    \/ InlineChunks
    \/ GetIdPaths
    \/ GenerateChunkedDocumentation
    \/ GenerateChunk
    \/ Return

SpecBooks == InitBooks /\ [][NextBooks]_vars

\* the start tags of the elements of a document with callouts
CalloutTags ==
    {<<"<", "c", "a", "l", "l", "o", "u", "t", "l", "i", "s", "t", ">">>, <<"<", "c", "a", "l", "l", "o", "u", "t", ">">>, <<"<", "c", "a", "l", "l", "o", "u", "t", " ", "i", "d", "=", "\"", "b", "\"", ">">>, <<"<", "c", "o", ">">>,
     <<"<", "c", "o", " ", "l", "i", "n", "k", "e", "n", "d", "s", "=", "\"", "b", "\"", ">">>, <<"<", "c", "o", " ", "i", "d", "=", "\"", "c", "\"", " ", "l", "i", "n", "k", "e", "n", "d", "s", "=", "\"", "b", "\"", ">">>}

\* the close tag of a start tag
CloseTagOf(start) ==
    <<"<", "/">> \o SubSeq(start, 2, read_some_of(start, 2, NameChars) - 1) \o <<">">>

\* the well-formed texts of at most n elements with callout tags
RECURSIVE CalloutTexts(_)
CalloutTexts(n) ==
    IF n = 0 THEN {<<>>}
    ELSE {<<>>} \cup UNION {
            {start \o inner \o CloseTagOf(start) \o after :
                start \in CalloutTags,
                inner \in CalloutTexts(k), after \in CalloutTexts(n - 1 - k)}
            : k \in 0..(n - 1)}

\* a chunked conversion of a book with callout lists, callouts and
\* references to callouts, the whole of it in the buffer
InitCallouts ==
    /\ mode = "callouts"
    /\ chunked_output = TRUE
    /\ source \in {<<"<", "b", "o", "o", "k", ">">> \o text \o <<"<", "/", "b", "o", "o", "k", ">">> :
                        text \in CalloutTexts(MaxCallouts)}
    /\ rest = source
    /\ eof = TRUE
    /\ InitRest

NextCallouts ==
    \/ ParseBreak
    \/ ParseCloseTag
    \/ ParseTag
    \/ ChunkDocument
    \/ InlineSections
    \/ GetIdPaths
    \/ GenerateChunkedDocumentation
    \/ GenerateChunk
    \/ Return

SpecCallouts == InitCallouts /\ [][NextCallouts]_vars

Spec == Init /\ [][Next]_vars

----------------------------------------------------------------------------
(* The parser on its own, over every source text made of a few pieces *)

InitParse ==
    /\ mode = "text"
    /\ chunked_output = FALSE
    /\ \E ps \in PieceTexts : rest = Flatten(ps)
    /\ source = rest
    /\ eof = TRUE
    /\ InitRest

SpecParse == InitParse /\ [][Parse]_vars

----------------------------------------------------------------------------
(* id_to_path on its own, called with two ids *)

\* the characters of the ids: a character id_to_path keeps, the one it
\* replaces and the one it replaces it with
IdChars == {"a", ".", "/"}

Ids == UNION {[1..n -> IdChars] : n \in 0..MaxIdLen}

InitPath ==
    /\ mode = "path"
    /\ chunked_output = FALSE
    /\ source = <<>>
    /\ rest = <<>>
    /\ eof = TRUE
    /\ pc = "path"
    /\ pos = 0
    /\ xt = NoTree
    /\ err = NoError
    /\ oob = FALSE
    /\ chunks = <<>>
    /\ chunked = Null
    /\ id_paths = NoPaths
    /\ pending = <<>>
    /\ files = <<>>
    /\ dirs = {}
    /\ footnote_number = 0
    /\ asserted = FALSE
    /\ failures = 0
    /\ ret = -1
    /\ call \in {[f |-> "ids", ids |-> <<a, b>>] : a, b \in Ids}
    /\ detached = {}

IdToPath ==
    /\ pc = "path"
    /\ call.f = "ids"
    /\ call' = [f |-> "id_to_path", ids |-> call.ids,
                paths |-> <<id_to_path(call.ids[1]), id_to_path(call.ids[2])>>]
    /\ UNCHANGED <<mode, chunked_output, pc, parse_vars, chunk_vars, gen_vars,
                   detached>>

SpecPath == InitPath /\ [][IdToPath]_vars

----------------------------------------------------------------------------
(* A tree builder on its own: any sequence of add_element, start_children  *)
(* directly after an add_element, end_children while a parent is open, and *)
(* extract of a node of the tree.  The builder is xt; detached holds the   *)
(* nodes of the subtrees extract was called for.                           *)

\* the nodes reachable from it through children and next links
RECURSIVE Reachable(_, _)
Reachable(nodes, it) ==
    IF it = Null THEN {}
    ELSE {it} \cup Reachable(nodes, nodes[it].children)
              \cup Reachable(nodes, nodes[it].next)

\* the nodes of the tree the builder t holds
InTree(t) == Reachable(t.nodes, t.root)

InitTree ==
    /\ mode = "tree"
    /\ chunked_output = FALSE
    /\ source = <<>>
    /\ rest = <<>>
    /\ eof = TRUE
    /\ InitRest

\* what the builder's operations leave alone
rest_of_tree ==
    <<mode, chunked_output, pc, source, rest, pos, eof, err, oob, chunk_vars,
      gen_vars>>

TreeAddElement ==
    /\ mode = "tree"
    /\ Len(xt.nodes) < MaxTreeNodes
    /\ xt' = add_element(Alloc(xt, node(<<"x">>)), Len(xt.nodes) + 1)
    /\ call' = [f |-> "add_element"]
    /\ UNCHANGED <<detached, rest_of_tree>>

TreeStartChildren ==
    /\ mode = "tree"
    /\ call.f = "add_element"
    /\ xt' = start_children(xt)
    /\ call' = [f |-> "start_children"]
    /\ UNCHANGED <<detached, rest_of_tree>>

TreeEndChildren ==
    /\ mode = "tree"
    /\ xt.parent # Null
    /\ xt' = end_children(xt)
    /\ call' = [f |-> "end_children"]
    /\ UNCHANGED <<detached, rest_of_tree>>

\* extract as bb2html.cpp and tree.hpp define it
TreeExtract ==
    /\ mode = "tree"
    /\ \E x \in InTree(xt) :
        /\ xt' = extract(xt, x).tree
        /\ call' = [f |-> "extract", impl |-> "tree_builder", x |-> x,
                    before |-> xt, gone |-> detached, result |-> extract(xt, x).next]
        /\ detached' = detached \cup {x}
                        \cup Reachable(xt.nodes, xt.nodes[x].children)
    /\ UNCHANGED rest_of_tree

\* extract as tree.cpp defines it
TreeBaseExtract ==
    /\ mode = "tree"
    /\ \E x \in InTree(xt) :
        /\ xt' = tree_builder_base_extract(xt, x).tree
        /\ call' = [f |-> "extract", impl |-> "tree_builder_base", x |-> x,
                    before |-> xt, gone |-> detached,
                    result |-> tree_builder_base_extract(xt, x).next]
        /\ detached' = detached \cup {x}
                        \cup Reachable(xt.nodes, xt.nodes[x].children)
    /\ UNCHANGED rest_of_tree

NextTree ==
    \/ TreeAddElement
    \/ TreeStartChildren
    \/ TreeEndChildren
    \/ TreeExtract
    \/ TreeBaseExtract

SpecTree == InitTree /\ [][NextTree]_vars

----------------------------------------------------------------------------
(* delete_nodes on the tree of a builder, one action per step of a call.   *)
(* call holds the stack of the calls of delete_nodes (the n and the        *)
(* to_delete of each, and where it is), the nodes freed so far in the      *)
(* order of their delete, and whether a field of a freed node was read.    *)

\* the calls of the builder that make a tree
BuilderCalls ==
    UNION {[1..k -> {"add_element", "start_children", "end_children"}] :
            k \in 0..(2 * MaxTreeNodes)}

\* what Built yields for calls that are not legal
Illegal == [illegal |-> TRUE]

\* the builder after the calls from the i-th on; a call that is not legal
\* (more than MaxTreeNodes nodes, start_children not directly after
\* add_element, end_children with no open parent) makes it Illegal
RECURSIVE Built(_, _, _)
Built(t, calls, i) ==
    IF i > Len(calls) THEN t
    ELSE CASE calls[i] = "add_element" ->
                IF Len(t.nodes) < MaxTreeNodes
                THEN Built(add_element(Alloc(t, node(<<"x">>)),
                                       Len(t.nodes) + 1),
                           calls, i + 1)
                ELSE Illegal
           [] calls[i] = "start_children" ->
                IF i > 1 /\ calls[i - 1] = "add_element"
                THEN Built(start_children(t), calls, i + 1)
                ELSE Illegal
           [] OTHER ->
                IF t.parent # Null
                THEN Built(end_children(t), calls, i + 1)
                ELSE Illegal

\* frames the stack has room for; a call of delete_nodes on a tree of the
\* model takes fewer when it returns
MaxStack == 2 * MaxTreeNodes

delete_nodes_call(n) == [n |-> n, to_delete |-> Null, at |-> "while"]

InitDelete ==
    /\ mode = "delete"
    /\ chunked_output = FALSE
    /\ source = <<>>
    /\ rest = <<>>
    /\ eof = TRUE
    /\ pos = 0
    /\ err = NoError
    /\ oob = FALSE
    /\ chunks = <<>>
    /\ chunked = Null
    /\ id_paths = NoPaths
    /\ pending = <<>>
    /\ files = <<>>
    /\ dirs = {}
    /\ footnote_number = 0
    /\ asserted = FALSE
    /\ failures = 0
    /\ ret = -1
    /\ detached = {}
    /\ pc = "delete"
    /\ \E calls \in BuilderCalls :
        /\ Built(NoTree, calls, 1) # Illegal
        /\ xt = Built(NoTree, calls, 1)
    /\ \E impl \in {"bb2html.cpp", "tree.hpp"} :
        call = [f |-> "delete_nodes", impl |-> impl,
                stack |-> <<delete_nodes_call(xt.root)>>,
                freed |-> <<>>, stale |-> FALSE]

\* what a step of delete_nodes leaves alone
rest_of_delete ==
    <<mode, chunked_output, source, rest, pos, eof, xt, err, oob, chunk_vars,
      gen_vars, detached>>

\* the stack with its top frame replaced by frame, and the frames of
\* calls pushed on it
Called(frame, calls) ==
    SubSeq(call.stack, 1, Len(call.stack) - 1) \o <<frame>> \o calls

\* the test of the loop: return for a null n, else read the next and the
\* children of n and call delete_nodes for the children
DeleteNodesLoop ==
    /\ pc = "delete"
    /\ LET top == call.stack[Len(call.stack)]
       IN  /\ top.at = "while"
           /\ IF top.n = Null
              THEN /\ call' = [call EXCEPT
                            !.stack = SubSeq(@, 1, Len(@) - 1)]
                   /\ pc' = IF Len(call.stack) = 1 THEN "deleted" ELSE pc
              ELSE IF Len(call.stack) = MaxStack
              THEN /\ pc' = "undefined"
                   /\ call' = call
              ELSE /\ call' = [call EXCEPT
                        !.stack = Called(
                            [n |-> xt.nodes[top.n].next, to_delete |-> top.n,
                             at |-> "children"],
                            <<delete_nodes_call(xt.nodes[top.n].children)>>),
                        !.stale = @ \/ \E i \in DOMAIN call.freed :
                                        call.freed[i] = top.n]
                   /\ pc' = pc
    /\ UNCHANGED rest_of_delete

\* after the call for the children, in tree.hpp: delete (to_delete)
TreeDeleteNode ==
    /\ pc = "delete"
    /\ call.impl = "tree.hpp"
    /\ LET top == call.stack[Len(call.stack)]
       IN  /\ top.at = "children"
           /\ call' = [call EXCEPT
                    !.stack = Called([top EXCEPT !.at = "while"], <<>>),
                    !.freed = Append(@, top.to_delete)]
    /\ pc' = pc
    /\ UNCHANGED rest_of_delete

\* after the call for the children, in bb2html.cpp:
\* delete_nodes(to_delete)
DeleteNodesAgain ==
    /\ pc = "delete"
    /\ call.impl = "bb2html.cpp"
    /\ LET top == call.stack[Len(call.stack)]
       IN  /\ top.at = "children"
           /\ IF Len(call.stack) = MaxStack
              THEN /\ pc' = "undefined"
                   /\ call' = call
              ELSE /\ call' = [call EXCEPT
                        !.stack = Called([top EXCEPT !.at = "while"],
                                    <<delete_nodes_call(top.to_delete)>>)]
                   /\ pc' = pc
    /\ UNCHANGED rest_of_delete

NextDelete ==
    \/ DeleteNodesLoop
    \/ TreeDeleteNode
    \/ DeleteNodesAgain

SpecDelete == InitDelete /\ [][NextDelete]_vars /\ WF_vars(NextDelete)

----------------------------------------------------------------------------
(* Ownership of the nodes of the source by the chunks *)

\* it, its later siblings, and everything below them
RECURSIVE SiblingsAndBelow(_, _)
SiblingsAndBelow(xn, it) ==
    IF it = Null THEN {}
    ELSE {it} \cup SiblingsAndBelow(xn, xn[it].children)
              \cup SiblingsAndBelow(xn, xn[it].next)

\* the subtree a pointer to n owns
Subtree(xn, n) ==
    IF n = Null THEN {} ELSE {n} \cup SiblingsAndBelow(xn, xn[n].children)

\* the nodes below the title_, info_ and root_ of chunk c
Owned(cs, xn, c) ==
    Subtree(xn, cs[c].title) \cup Subtree(xn, cs[c].info)
        \cup Subtree(xn, cs[c].root)

ChunkWorthy(xn) ==
    {n \in DOMAIN xn : xn[n].type = "node" /\ xn[n].name \in chunk_types}

\* C1: after chunk_document there is exactly one chunk for each chunk-worthy
\* element of the source, and every other node of the source is owned by
\* exactly one chunk, below its title, its info or its root: no node is left
\* in the residual tree, orphaned, or reachable from two chunks.
C1_ChunksPartitionTheSource ==
    pc = "inline" =>
        /\ \A n \in ChunkWorthy(xt.nodes) :
            Cardinality({c \in DOMAIN chunks : chunks[c].root = n}) = 1
        /\ \A n \in DOMAIN xt.nodes \ ChunkWorthy(xt.nodes) :
            Cardinality({c \in DOMAIN chunks :
                            n \in Owned(chunks, xt.nodes, c)}) = 1

----------------------------------------------------------------------------
(* The id index and the links *)

\* the elements of the source that carry an id attribute
WithId(xn) ==
    {n \in DOMAIN xn : xn[n].type = "node" /\ HasAttribute(xn[n], <<"i", "d">>)}

\* the link elements of the source whose linkend is id
LinksTo(xn, id) ==
    {n \in DOMAIN xn :
        /\ xn[n].type = "node"
        /\ xn[n].name = <<"l", "i", "n", "k">>
        /\ HasAttribute(xn[n], <<"l", "i", "n", "k", "e", "n", "d">>)
        /\ AttributeValue(xn[n], <<"l", "i", "n", "k", "e", "n", "d">>) = id}

\* the values of the href attributes the rule of link gives link element x
\* on the page at path
Hrefs(ip, path, xn, x) ==
    LET html == parser_link(html_gen(ip, path, xn, 0, FALSE), x).html
    IN  {html[i][3] : i \in {j \in DOMAIN html :
                                html[j][1] = "attr" /\ html[j][2] = "href"}}

\* C2: after chunking, inlining and get_id_paths, the index maps the id of
\* every element of the source that carries one to the path of the page
\* that contains the element followed by # and the id, or to the bare path
\* of the page when the id is the id of a chunk that is not inline; a link
\* whose linkend is that id is rendered with an href that is not empty.
C2_EveryIdResolves ==
    pc \in {"generate", "pages", "done"} =>
        \A n \in WithId(xt.nodes) :
            LET id == AttributeValue(xt.nodes[n], <<"i", "d">>)
            IN  /\ id \in DOMAIN id_paths
                /\ \/ \E c \in DOMAIN chunks :
                        /\ n \in Owned(chunks, xt.nodes, c)
                        /\ id_paths[id] = chunks[c].path \o <<"#">> \o id
                   \/ \E c \in DOMAIN chunks :
                        /\ chunks[c].root = n
                        /\ chunks[c].id = id
                        /\ ~chunks[c].inline
                        /\ id_paths[id] = chunks[c].path
                /\ \A x \in LinksTo(xt.nodes, id), c \in DOMAIN chunks :
                        /\ Hrefs(id_paths, chunks[c].path, xt.nodes, x) # {}
                        /\ <<>> \notin
                            Hrefs(id_paths, chunks[c].path, xt.nodes, x)

----------------------------------------------------------------------------
(* The single output file *)

\* the div elements of html that carry an id, as they open and close.
\* open holds, innermost first, whether each open div carries an id.
RECURSIVE DivSkeleton(_, _, _)
DivSkeleton(html, i, open) ==
    IF i > Len(html) THEN <<>>
    ELSE IF html[i] = <<"<", "div">>
    THEN IF i < Len(html) /\ html[i + 1][1] = "attr" /\ html[i + 1][2] = "id"
         THEN <<<<"div", html[i + 1][3]>>>>
                \o DivSkeleton(html, i + 1, <<TRUE>> \o open)
         ELSE DivSkeleton(html, i + 1, <<FALSE>> \o open)
    ELSE IF html[i] = <<"</", "div">> /\ open # <<>>
    THEN (IF Head(open) THEN <<<<"/div">>>> ELSE <<>>)
            \o DivSkeleton(html, i + 1, Tail(open))
    ELSE DivSkeleton(html, i + 1, open)

\* the chunks from it on, as they are nested, in document order
RECURSIVE ChunkSkeleton(_, _)
ChunkSkeleton(cs, it) ==
    IF it = Null THEN <<>>
    ELSE <<<<"div", cs[it].id>>>> \o ChunkSkeleton(cs, cs[it].children)
            \o <<<<"/div">>>> \o ChunkSkeleton(cs, cs[it].next)

\* the first chunk of the chunk tree, null when there is no chunk
FirstChunk(cs) ==
    IF \E c \in DOMAIN cs : cs[c].parent = Null /\ cs[c].prev = Null
    THEN CHOOSE c \in DOMAIN cs : cs[c].parent = Null /\ cs[c].prev = Null
    ELSE Null

NavigationLinks(html) ==
    {i \in DOMAIN html : html[i][1] = "attr" /\ html[i][2] = "accesskey"}

\* C3: with chunked_output false, for any document that parses,
\* boostbook_to_html writes exactly one file, the configured output file;
\* the file holds one div with the chunk's id for every chunk of the chunk
\* tree, nested as the chunks are nested and in document order, and no
\* navigation links.
C3_SingleFile ==
    (~chunked_output /\ pc \in {"done", "undefined"} /\ err = NoError /\ ~oob)
        => /\ Len(files) = 1
           /\ files[1].path = output_file
           /\ DivSkeleton(files[1].content, 1, <<>>)
                = ChunkSkeleton(chunks, FirstChunk(chunks))
           /\ NavigationLinks(files[1].content) = {}

----------------------------------------------------------------------------
(* Which chunks are inline *)

IsSection(cs, xn, c) == xn[cs[c].root].name = <<"s", "e", "c", "t", "i", "o", "n">>

\* c and the chunks before it under the same parent
RECURSIVE UpTo(_, _)
UpTo(cs, c) == IF c = Null THEN {} ELSE {c} \cup UpTo(cs, cs[c].prev)

\* c lies in the leading contiguous run of section children of its parent
InLeadingSections(cs, xn, c) ==
    \A d \in UpTo(cs, c) : IsSection(cs, xn, d)

\* C4: with chunked_output true, a chunk is inline exactly when its parent
\* is inline, or it is a section in the leading contiguous run of section
\* children of its parent; the root keeps the path index.html and every
\* other chunk that is not inline keeps the path id_to_path(its id).
C4_InlineExactlyLeadingSections ==
    (chunked_output /\ pc \in {"index", "generate", "pages", "done"}) =>
        /\ chunks[chunked].path = <<"i", "n", "d", "e", "x", ".", "h", "t", "m", "l">>
        /\ \A c \in DOMAIN chunks :
            /\ chunks[c].inline <=>
                /\ chunks[c].parent # Null
                /\ \/ chunks[chunks[c].parent].inline
                   \/ InLeadingSections(chunks, xt.nodes, c)
            /\ (~chunks[c].inline /\ c # chunked) =>
                chunks[c].path = id_to_path(chunks[c].id)

----------------------------------------------------------------------------
(* A source that ends inside a tag *)

\* the index in the source of the '<' the parse loop stopped at: the first
\* one after the pos characters it had consumed (past the end when there is
\* none)
TagStart ==
    IF \E i \in pos + 1..Len(source) : source[i] = "<"
    THEN CHOOSE i \in pos + 1..Len(source) :
            /\ source[i] = "<"
            /\ \A j \in pos + 1..i - 1 : source[j] # "<"
    ELSE Len(source) + 1

\* no '>' outside a quoted value from i on; q is the open quote, "" for none
RECURSIVE Unclosed(_, _, _)
Unclosed(s, i, q) ==
    IF i > Len(s) THEN TRUE
    ELSE IF q = ""
    THEN IF s[i] = ">" THEN FALSE
         ELSE Unclosed(s, i + 1, IF s[i] \in Quotes THEN s[i] ELSE "")
    ELSE Unclosed(s, i + 1, IF s[i] = q THEN "" ELSE q)

\* the source ends inside the start tag the parse loop stopped at
EndsInsideTag ==
    /\ TagStart <= Len(source)
    /\ TagStart < Len(source) => source[TagStart + 1] \notin {"?", "!", "/"}
    /\ Unclosed(source, TagStart + 1, "")

\* C5: for every input that ends inside a tag, after a '<' and before its
\* closing '>', parsing fails with a parse error whose position is the
\* offset of that '<', and the parser never reads a character at or beyond
\* the end of the input.
C5_TruncatedTagIsAParseError ==
    (pc \in {"parse_error", "undefined"} /\ EndsInsideTag) =>
        /\ pc = "parse_error"
        /\ err.pos = TagStart - 1
        /\ ~oob

----------------------------------------------------------------------------
(* The order of parsing, chunking and writing *)

\* C6: on any run in which a parse error is raised no output file has been
\* written and no output directory has been created; output exists only
\* after the whole input has been parsed without an error and chunking,
\* inlining and id indexing are complete.
C6_NoOutputBeforeTheIndex ==
    /\ (pc = "parse_error" \/ err # NoError) => (files = <<>> /\ dirs = {})
    /\ (files # <<>> \/ dirs # {}) =>
        /\ eof
        /\ rest = <<>>
        /\ err = NoError
        /\ pc \in {"pages", "done", "undefined"}
        /\ id_paths = get_id_paths(chunks, xt.nodes, chunked)

\* a close tag that does not match ends the run after two elements were read
C6_ParseErrorAfterElements ==
    /\ pc = "parse_error"
    /\ err.msg = "Close tag doesn't match"
    /\ Len(xt.nodes) >= 2
    /\ files = <<>>
    /\ dirs = {}

----------------------------------------------------------------------------
(* Links that do not resolve *)

\* the link elements whose linkend is absent or is not a key of the index
Unresolved(ip, xn) ==
    {x \in DOMAIN xn :
        /\ xn[x].type = "node"
        /\ xn[x].name = <<"l", "i", "n", "k">>
        /\ \/ ~HasAttribute(xn[x], <<"l", "i", "n", "k", "e", "n", "d">>)
           \/ AttributeValue(xn[x], <<"l", "i", "n", "k", "e", "n", "d">>) \notin DOMAIN ip}

\* html from token i on begins with the tokens of part
BeginsAt(html, i, part) ==
    /\ i + Len(part) - 1 <= Len(html)
    /\ SubSeq(html, i, i + Len(part) - 1) = part

\* C7: for a link element whose linkend is absent or is not a key of the id
\* index, rendering emits an <a> start tag with no href attribute, then the
\* element's children, then </a>; no error is raised, and what is rendered
\* after the link follows it on the page.
C7_UnresolvedLinkIsABareAnchor ==
    pc \in {"pages", "done"} =>
        \A x \in Unresolved(id_paths, xt.nodes), c \in DOMAIN chunks :
            LET gen == html_gen(id_paths, chunks[c].path, xt.nodes, 0, TRUE)
                inner == document_children(gen, x)
                after == parser_link(Emit(gen, <<"text", <<"b", "e", "f", "o", "r", "e">>>>), x)
            IN  /\ ~after.ub
                /\ after.html =
                    <<<<"text", <<"b", "e", "f", "o", "r", "e">>>>, <<"<", "a">>, <<">">>>>
                        \o inner.html \o <<<<"</", "a">>>>
                /\ after.in_contents = gen.in_contents
                /\ after.path = gen.path

\* a page was written that holds an anchor without attributes, for a link
\* that has a child and whose linkend is not in the index
C7_BareAnchorWritten ==
    /\ pc = "done"
    /\ \E x \in Unresolved(id_paths, xt.nodes) :
        /\ HasAttribute(xt.nodes[x], <<"l", "i", "n", "k", "e", "n", "d">>)
        /\ xt.nodes[x].children # Null
    /\ chunked_output
    /\ \E f \in DOMAIN files :
        /\ files[f].outcome = "ok"
        /\ files[f].path = <<"i", "n", "d", "e", "x", ".", "h", "t", "m", "l">>
        /\ \E i \in DOMAIN files[f].content :
            BeginsAt(files[f].content, i, <<<<"<", "a">>, <<">">>>>)

----------------------------------------------------------------------------
(* Footnote numbering *)

\* where the token occurs in the pages written: <<file, index>>
Occurrences(token) ==
    {o \in UNION {{f} \X DOMAIN files[f].content : f \in DOMAIN files} :
        files[o[1]].content[o[2]] = token}

\* the forward marker and the body anchor of the footnote labelled n
Marker(n) == Attribute("href", <<"#", "f", "o", "o", "t", "n", "o", "t", "e", "-">> \o lexical_cast(n))

BodyAnchor(n) == Attribute("id", <<"f", "o", "o", "t", "n", "o", "t", "e", "-">> \o lexical_cast(n))

\* occurrence a is written before occurrence b
Before(a, b) == a[1] < b[1] \/ (a[1] = b[1] /\ a[2] < b[2])

\* C8: when the conversion is done, the labels given are 1, 2, ... in the
\* order the footnotes were rendered, and for every label given the pages
\* hold exactly one forward marker with that label and exactly one footnote
\* body anchored with it, on the page of the marker and after it; also for
\* a footnote in a chunk title, which is rendered in a table of contents
\* and on the page.
C8_EachLabelOneMarkerOneBody ==
    pc = "done" =>
        /\ \A n \in 1..footnote_number :
            /\ Cardinality(Occurrences(Marker(n))) = 1
            /\ Cardinality(Occurrences(BodyAnchor(n))) = 1
            /\ \A m \in Occurrences(Marker(n)), b \in Occurrences(BodyAnchor(n)) :
                m[1] = b[1] /\ m[2] < b[2]
        /\ \A n1, n2 \in 1..footnote_number :
            \A m1 \in Occurrences(Marker(n1)), m2 \in Occurrences(Marker(n2)) :
                Before(m1, m2) => n1 < n2

----------------------------------------------------------------------------
(* Path derivation *)

\* path is id with every "." replaced by "/", followed by ".html"
Derived(id, path) ==
    /\ Len(path) = Len(id) + 5
    /\ SubSeq(path, Len(id) + 1, Len(path)) = <<".", "h", "t", "m", "l">>
    /\ \A i \in 1..Len(id) :
        path[i] = (IF id[i] = "." THEN "/" ELSE id[i])

\* C9: id_to_path(id) is id with every "." replaced by "/" followed by
\* ".html", and the paths derived from two different ids are different.
C9_PathsDerivedAndDistinct ==
    call.f = "id_to_path" =>
        /\ \A k \in 1..2 : Derived(call.ids[k], call.paths[k])
        /\ call.ids[1] # call.ids[2] => call.paths[1] # call.paths[2]

----------------------------------------------------------------------------
(* Exit status *)

\* the calls of write_file whose open or write failed
FailedFiles == {f \in DOMAIN files : files[f].outcome # "ok"}

\* C10: the status boostbook_to_html returns is the number of output files
\* whose open or write failed; it is not 0 when a page could not be
\* written.
C10_StatusCountsFailedFiles ==
    pc = "done" =>
        /\ ret = Cardinality(FailedFiles)
        /\ FailedFiles # {} => ret # 0

----------------------------------------------------------------------------
(* The tree builder *)

\* the siblings from first on, in order
RECURSIVE SiblingSeq(_, _)
SiblingSeq(nodes, first) ==
    IF first = Null THEN <<>>
    ELSE <<first>> \o SiblingSeq(nodes, nodes[first].next)

\* the sequence s without x
Without(s, x) == SelectSeq(s, LAMBDA y : y # x)

\* the head of the list n is a sibling of in t: its parent's children_, or
\* the builder's root_
ListHead(t, parent) ==
    IF parent # Null THEN t.nodes[parent].children ELSE t.root

\* for every node of the tree: it is the head of its list iff it has no
\* prev, prev and next are inverse to each other, and siblings share their
\* parent
LinksConsistent(t) ==
    \A n \in InTree(t) :
        LET e == t.nodes[n]
        IN  /\ (ListHead(t, e.parent) = n) <=> (e.prev = Null)
            /\ e.next # Null =>
                /\ t.nodes[e.next].prev = n
                /\ t.nodes[e.next].parent = e.parent
            /\ e.prev # Null =>
                /\ t.nodes[e.prev].next = n
                /\ t.nodes[e.prev].parent = e.parent

\* the tree of builder t is well formed, gone being the nodes of the
\* subtrees extracted from it: its links are consistent and every node
\* added and not extracted is reachable from the root
WellFormed(t, gone) ==
    /\ LinksConsistent(t)
    /\ (DOMAIN t.nodes) \ gone \subseteq InTree(t)

\* C11: extract(x), for a node x of a well-formed tree held by a builder,
\* returns what was x's next sibling (null for a last sibling); afterwards
\* x is in no child list or root list, the other siblings are in the order
\* they were in with consistent prev, next and parent.children links, x's
\* parent, next and prev are null and x's children are as they were.
C11_ExtractUnlinksAndReturnsNext ==
    (call.f = "extract" /\ WellFormed(call.before, call.gone)) =>
        LET x == call.x
            was == call.before
            e == was.nodes[x]
            siblings == SiblingSeq(xt.nodes, ListHead(xt, e.parent))
        IN  /\ call.result = e.next
            /\ x \notin InTree(xt)
            /\ \A n \in DOMAIN xt.nodes \ {x} :
                /\ xt.nodes[n].children # x
                /\ xt.nodes[n].next # x
                /\ xt.nodes[n].prev # x
            /\ siblings =
                Without(SiblingSeq(was.nodes, ListHead(was, e.parent)), x)
            /\ LinksConsistent(xt)
            /\ xt.nodes[x].parent = Null
            /\ xt.nodes[x].next = Null
            /\ xt.nodes[x].prev = Null
            /\ xt.nodes[x].children = e.children
            /\ \A n \in Reachable(was.nodes, e.children) :
                xt.nodes[n] = was.nodes[n]

----------------------------------------------------------------------------
(* Close tags *)

\* the name characters of s from i on
RECURSIVE NameRun(_, _)
NameRun(s, i) ==
    IF i <= Len(s) /\ s[i] \in NameChars THEN <<s[i]>> \o NameRun(s, i + 1)
    ELSE <<>>

\* s begins with a close tag </name>
BeginsWithCloseTag(s) ==
    /\ Len(s) >= 4
    /\ s[1] = "<"
    /\ s[2] = "/"
    /\ NameRun(s, 3) # <<>>
    /\ 3 + Len(NameRun(s, 3)) <= Len(s)
    /\ s[3 + Len(NameRun(s, 3))] = ">"

\* C12: a close tag </name> at the read position is accepted only when an
\* element is open and its name is name, character for character; the
\* builder's cursor then pops to the level of that element.  When no
\* element is open or the names differ, the parser throws a parse error at
\* the '<' of the close tag and the tree is as it was.
C12_CloseTagMustMatch ==
    [][(mode = "text" /\ pc = "parse" /\ BeginsWithCloseTag(rest)) =>
        LET name == NameRun(rest, 3)
            open == xt.parent
        IN  IF open # Null /\ xt.nodes[open].name = name
            THEN /\ pc' = "parse"
                 /\ err' = err
                 /\ xt' = [xt EXCEPT !.current = open,
                                     !.parent = xt.nodes[open].parent]
                 /\ rest' = SubSeq(rest, 4 + Len(name), Len(rest))
            ELSE /\ pc' = "parse_error"
                 /\ err' = [msg |-> "Close tag doesn't match", pos |-> pos]
                 /\ xt' = xt
      ]_vars

\* the close tag </A> was refused for the open element a
C12_CloseTagOfOtherCaseRefused ==
    /\ mode = "text"
    /\ pc = "parse_error"
    /\ err.msg = "Close tag doesn't match"
    /\ xt.parent # Null
    /\ xt.nodes[xt.parent].name = <<"a">>
    /\ source = <<"<", "a", ">", "<", "/", "A", ">">>

----------------------------------------------------------------------------
(* The pages written *)

\* the chunks that are not inline, from it on, in depth-first pre-order
RECURSIVE PagesInPreOrder(_, _)
PagesInPreOrder(cs, it) ==
    IF it = Null THEN <<>>
    ELSE (IF cs[it].inline THEN <<>> ELSE <<it>>)
         \o PagesInPreOrder(cs, cs[it].children)
         \o PagesInPreOrder(cs, cs[it].next)

\* C13: when generation is over, write_file was called exactly once for
\* every chunk of the chunk tree that is not inline, under the path of the
\* chunk, and never for an inline chunk; the calls are in depth-first
\* pre-order, and a call that failed is followed by the calls for the
\* remaining chunks.
C13_OneWritePerPageInPreOrder ==
    pc = "done" =>
        LET pages == PagesInPreOrder(chunks, chunked)
        IN  /\ Len(files) = Len(pages)
            /\ \A i \in 1..Len(pages) : files[i].path = chunks[pages[i]].path

----------------------------------------------------------------------------
(* The navigation bar *)

\* the last of the siblings from it on
RECURSIVE LastSibling(_, _)
LastSibling(cs, it) ==
    IF cs[it].next = Null THEN it ELSE LastSibling(cs, cs[it].next)

\* the deepest last descendant of chunk c, c itself when it has no child
RECURSIVE DeepestLast(_, _)
DeepestLast(cs, c) ==
    IF cs[c].children = Null THEN c
    ELSE DeepestLast(cs, LastSibling(cs, cs[c].children))

\* the values of href of the links with access key p in a page
PrevLinks(page) ==
    {page[i][3] : i \in {j \in 1..(Len(page) - 1) :
                            /\ page[j][1] = "attr"
                            /\ page[j][2] = "href"
                            /\ page[j + 1] = Attribute("accesskey", "p")}}

\* C14: the page written for a chunk links as previous page the page of
\* the deepest last descendant of the previous sibling of the chunk, or the
\* page of its parent when it has no previous sibling; only the page of
\* the root has no such link.
C14_PreviousIsDeepestLastDescendant ==
    [][(pc = "pages" /\ Len(files') = Len(files) + 1) =>
        LET c == Head(pending)
            page == files'[Len(files')].content
            target == IF chunks[c].prev # Null
                      THEN DeepestLast(chunks, chunks[c].prev)
                      ELSE chunks[c].parent
        IN  PrevLinks(page) =
                IF target = Null THEN {}
                ELSE {relative_path_from(chunks[target].path, chunks[c].path)}
      ]_vars

----------------------------------------------------------------------------
(* The id index *)

\* the registrations of the ids under element n, for a page at path
RECURSIVE ElementRegistrations(_, _, _)
RECURSIVE ElementRegistrationsFrom(_, _, _)
ElementRegistrations(path, xn, n) ==
    IF n = Null THEN <<>>
    ELSE (IF HasAttribute(xn[n], <<"i", "d">>)
          THEN <<[id |-> AttributeValue(xn[n], <<"i", "d">>),
                  target |-> path \o <<"#">>
                             \o AttributeValue(xn[n], <<"i", "d">>)]>>
          ELSE <<>>)
         \o ElementRegistrationsFrom(path, xn, xn[n].children)

ElementRegistrationsFrom(path, xn, it) ==
    IF it = Null THEN <<>>
    ELSE ElementRegistrations(path, xn, it)
         \o ElementRegistrationsFrom(path, xn, xn[it].next)

\* the registrations of the walk of chunk c: its own id, the ids in its
\* title, info and root, then its child chunks in order
RECURSIVE Registrations(_, _, _)
RECURSIVE RegistrationsFrom(_, _, _)
Registrations(cs, xn, c) ==
    <<[id |-> cs[c].id,
       target |-> IF cs[c].inline THEN cs[c].path \o <<"#">> \o cs[c].id
                  ELSE cs[c].path]>>
    \o ElementRegistrations(cs[c].path, xn, cs[c].title)
    \o ElementRegistrations(cs[c].path, xn, cs[c].info)
    \o ElementRegistrations(cs[c].path, xn, cs[c].root)
    \o RegistrationsFrom(cs, xn, cs[c].children)

RegistrationsFrom(cs, xn, it) ==
    IF it = Null THEN <<>>
    ELSE Registrations(cs, xn, it) \o RegistrationsFrom(cs, xn, cs[it].next)

\* C15: the id index built by the walk has one entry for every id the
\* walk registered, and the target of the entry is the target of the first
\* registration of the id: a later registration of the same id changes
\* nothing.
C15_FirstRegistrationWins ==
    (pc = "generate" /\ chunked # Null) =>
        LET regs == Registrations(chunks, xt.nodes, chunked)
        IN  /\ DOMAIN id_paths = {regs[i].id : i \in DOMAIN regs}
            /\ \A i \in DOMAIN regs :
                (\A j \in 1..(i - 1) : regs[j].id # regs[i].id)
                    => id_paths[regs[i].id] = regs[i].target

\* an id was registered twice with different targets
C15_IdRegisteredTwice ==
    /\ pc = "generate"
    /\ chunked # Null
    /\ LET regs == Registrations(chunks, xt.nodes, chunked)
       IN  \E i, j \in DOMAIN regs :
            /\ i < j
            /\ regs[i].id = regs[j].id
            /\ regs[i].target # regs[j].target

----------------------------------------------------------------------------
(* Callouts *)

\* the elements from it on that document renders: the rule of co does not
\* render the children of the element
RECURSIVE Rendered(_, _)
Rendered(xn, it) ==
    IF it = Null THEN {}
    ELSE {it}
         \cup (IF xn[it].name = <<"c", "o">> THEN {} ELSE Rendered(xn, xn[it].children))
         \cup Rendered(xn, xn[it].next)

\* the rendered callout and co elements below root for which the callout
\* table of the page has no entry
Unnumbered(xn, root) ==
    LET numbers == number_callouts(<<>>, xn, root)
    IN  {x \in Rendered(xn, root) :
            \/ /\ xn[x].name = <<"c", "a", "l", "l", "o", "u", "t">>
               /\ \/ ~HasAttribute(xn[x], <<"i", "d">>)
                  \/ AttributeValue(xn[x], <<"i", "d">>) \notin DOMAIN numbers
            \/ /\ xn[x].name = <<"c", "o">>
               /\ \/ ~HasAttribute(xn[x], <<"l", "i", "n", "k", "e", "n", "d", "s">>)
                  \/ AttributeValue(xn[x], <<"l", "i", "n", "k", "e", "n", "d", "s">>) \notin DOMAIN numbers}

\* the markers (0) of a page
ZeroMarkers(page) ==
    {i \in DOMAIN page :
        \/ page[i] = Text(<<"(", "0", ")">>)
        \/ page[i][1] = "graphics" /\ page[i][3] = <<"(", "0", ")">>}

\* C16: generating the page of a chunk never fails on a callout or co
\* element for which the callout table has no entry (no id or linkends
\* attribute, an id that was never numbered, a callout outside any
\* calloutlist): the page is written and has a marker (0) for each of
\* them.
C16_MissingCalloutRendersZero ==
    [][(mode = "callouts" /\ pc = "pages" /\ pending # <<>>) =>
        /\ pc' = "pages"
        /\ Cardinality(ZeroMarkers(files'[Len(files')].content))
                >= Cardinality(Unnumbered(xt.nodes,
                                          chunks[Head(pending)].root))
      ]_vars

----------------------------------------------------------------------------
(* Attributes *)

\* s has, somewhere, name = value with the value between two quotes of
\* the same kind
QuotedIn(s, name, value) ==
    \E i \in 1..Len(s), q \in Quotes :
        LET eq == read_some_of(s, i + Len(name), WS)
            open == read_some_of(s, eq + 1, WS)
        IN  /\ Matches(s, i, name)
            /\ eq # End(s)
            /\ s[eq] = "="
            /\ Matches(s, open, <<q>> \o value \o <<q>>)
            /\ \A k \in DOMAIN value : value[k] # q

\* C17: every attribute recorded on an element of the tree of a source
\* text that is being parsed without error has a value that stands in the
\* text between matching single or double quotes, after the name of the
\* attribute and an equals sign; a tag with an attribute of any other
\* form has been rejected.
C17_AttributeValuesWereQuoted ==
    (mode = "text" /\ pc = "parse") =>
        \A n \in DOMAIN xt.nodes :
            \A a \in DOMAIN xt.nodes[n].attributes :
                QuotedIn(source, xt.nodes[n].attributes[a][1],
                         xt.nodes[n].attributes[a][2])

----------------------------------------------------------------------------
(* The tree a builder holds *)

\* C18: after any sequence of add_element, start_children directly after
\* an add_element, end_children while a parent is open, and extract of a
\* node of the tree, the tree of the builder is well formed: a node is the
\* first child of its parent (or the root of the builder) iff it has no
\* prev, prev and next are inverse to each other, siblings share their
\* parent, and every node added and not extracted is reachable from the
\* root.
C18_TreeStaysWellFormed ==
    mode = "tree" => WellFormed(xt, detached)

----------------------------------------------------------------------------
(* Destruction *)

\* C19: a call of delete_nodes for the root of a finite well-formed tree
\* returns; when it has returned, every node reachable from the root
\* through children and next links was freed exactly once; and it never
\* reads a field of a node it has freed.
C19_DeleteNodesFreesEachNodeOnce ==
    /\ [](mode = "delete" => ~call.stale)
    /\ [](mode = "delete" /\ pc = "deleted" =>
            /\ {call.freed[i] : i \in DOMAIN call.freed} = InTree(xt)
            /\ Len(call.freed) = Cardinality(InTree(xt)))
    /\ <>(mode = "delete" /\ pc = "deleted")

----------------------------------------------------------------------------
(* What a chunk's root holds *)

\* C20: after chunk_document, the subtree of the root element of a chunk
\* has no element with a chunk-worthy tag name but that root element
\* itself, at any depth, also below elements that are not chunk-worthy
\* such as a para.
C20_NoChunkWorthyElementBelowARoot ==
    (mode = "doc" /\ pc = "inline") =>
        \A c \in DOMAIN chunks :
            \A n \in Reachable(xt.nodes, xt.nodes[chunks[c].root].children) :
                n \notin ChunkWorthy(xt.nodes)

----------------------------------------------------------------------------
(* The ids of the chunks *)

\* the id attributes of the elements of xn are pairwise distinct
DistinctIds(xn) ==
    \A m, n \in DOMAIN xn :
        (/\ m # n
         /\ HasAttribute(xn[m], <<"i", "d">>)
         /\ HasAttribute(xn[n], <<"i", "d">>))
            => AttributeValue(xn[m], <<"i", "d">>) # AttributeValue(xn[n], <<"i", "d">>)

\* C21: after chunk_document on a document whose id attributes are
\* pairwise distinct, every chunk has an id that is not empty and no two
\* chunks have the same id, be it the id attribute of the element or a
\* page-N made by next_path_name.
C21_ChunkIdsDistinct ==
    (mode = "pages" /\ pc = "inline" /\ DistinctIds(xt.nodes)) =>
        /\ \A c \in DOMAIN chunks : chunks[c].id # <<>>
        /\ \A c, d \in DOMAIN chunks : c # d => chunks[c].id # chunks[d].id

----------------------------------------------------------------------------
(* The chunks that were marked inline *)

\* C22: after inline_chunks (single-file output) or inline_sections with
\* depth 0 (chunked output), every chunk that is marked inline has a parent
\* chunk and the path of that parent, and the root chunk is not marked inline
C22_InlineChunksFollowTheirParent ==
    (mode = "doc" /\ pc = "index") =>
        \A c \in DOMAIN chunks :
            chunks[c].inline =>
                /\ c # chunked
                /\ chunks[c].parent # Null
                /\ chunks[c].path = chunks[chunks[c].parent].path

----------------------------------------------------------------------------
(* The callout table of a page *)

\* a chunked conversion of a book with a title, with callout lists,
\* callouts and references to callouts in the title and in the body
InitTitles ==
    /\ mode = "titles"
    /\ chunked_output = TRUE
    /\ source \in {<<"<", "b", "o", "o", "k", ">", "<", "t", "i", "t", "l", "e", ">">> \o head \o <<"<", "/", "t", "i", "t", "l", "e", ">">> \o text \o <<"<", "/", "b", "o", "o", "k", ">">> :
                        head \in CalloutTexts(1),
                        text \in CalloutTexts(MaxCallouts - 1)}
    /\ rest = source
    /\ eof = TRUE
    /\ InitRest

SpecTitles == InitTitles /\ [][NextCallouts]_vars

\* the callout and co elements from it on, in the order document renders
\* them
RECURSIVE Numbered(_, _)
Numbered(xn, it) ==
    IF it = Null THEN <<>>
    ELSE (IF xn[it].name \in {<<"c", "a", "l", "l", "o", "u", "t">>, <<"c", "o">>} THEN <<it>> ELSE <<>>)
         \o (IF xn[it].name = <<"c", "o">> THEN <<>> ELSE Numbered(xn, xn[it].children))
         \o Numbered(xn, xn[it].next)

\* the callout and co elements of the page of a chunk without child
\* chunks: those of its title, of its info and of its body
PageElements(xn, c) ==
    LET Part(x) == IF x = Null THEN <<>>
                   ELSE (IF xn[x].name \in {<<"c", "a", "l", "l", "o", "u", "t">>, <<"c", "o">>} THEN <<x>> ELSE <<>>)
                        \o (IF xn[x].name = <<"c", "o">> THEN <<>>
                            ELSE Numbered(xn, xn[x].children))
    IN  Part(c.title) \o Part(c.info) \o Part(c.root)

\* the numbers of the callout markers of a page, in the order of the page
Markers(page) ==
    LET IsMarker(t) == \/ t = Text(<<"(", "0", ")">>)
                       \/ t[1] = "graphics" /\ Matches(t[2], 1, <<"/", "c", "a", "l", "l", "o", "u", "t", "s", "/">>)
        marks == SelectSeq(page, IsMarker)
    IN  [i \in DOMAIN marks |->
            IF marks[i][1] = "graphics" THEN marks[i][3] ELSE marks[i][2]]

\* C23: on the page of a chunk every callout and co element of the title,
\* the info and the body is rendered with a marker, and a co element is
\* rendered with the same number as the callout its linkends attribute
\* names, also when the two are in different parts of the page (the one in
\* the title, the other in the body).
C23_OneCalloutTableForThePage ==
    [][(/\ mode = "titles"
        /\ pc = "pages"
        /\ pending # <<>>
        /\ pc' = "pages"
        /\ chunks[Head(pending)].children = Null) =>
        LET xn == xt.nodes
            els == PageElements(xn, chunks[Head(pending)])
            ms == Markers(files'[Len(files')].content)
        IN  /\ Len(ms) = Len(els)
            /\ \A i, j \in DOMAIN els :
                (/\ i \in DOMAIN ms
                 /\ j \in DOMAIN ms
                 /\ xn[els[i]].name = <<"c", "o">>
                 /\ xn[els[j]].name = <<"c", "a", "l", "l", "o", "u", "t">>
                 /\ HasAttribute(xn[els[i]], <<"l", "i", "n", "k", "e", "n", "d", "s">>)
                 /\ HasAttribute(xn[els[j]], <<"i", "d">>)
                 /\ AttributeValue(xn[els[i]], <<"l", "i", "n", "k", "e", "n", "d", "s">>)
                        = AttributeValue(xn[els[j]], <<"i", "d">>))
                => ms[i] = ms[j]
      ]_vars

----------------------------------------------------------------------------
(* The in-contents flag *)

\* C24: the in-contents flag of the generator of a page is false outside
\* generate_contents_html, so that every element with an id attribute that
\* is rendered, by a rule that writes ids, in the title, the info or the
\* body of the page of a chunk has its id attribute on the page (chunked
\* output).
C24_IdsOutsideTheContents ==
    [][(/\ mode = "dups"
        /\ chunked_output
        /\ pc = "pages"
        /\ pending # <<>>
        /\ pc' = "pages") =>
        LET xn == xt.nodes
            page == files'[Len(files')].content
        IN  \A n \in Owned(chunks, xn, Head(pending)) :
                (/\ xn[n].type = "node"
                 /\ xn[n].name \in DOMAIN NODE_MAP
                 /\ HasAttribute(xn[n], <<"i", "d">>)) =>
                    \E i \in DOMAIN page :
                        page[i] = Attribute("id", AttributeValue(xn[n], <<"i", "d">>))
      ]_vars

----------------------------------------------------------------------------
(* relative_path_from on its own: the call is made with a path and a base  *)
(* out of the relative paths over two letters and the slash, the path with *)
(* or without a fragment                                                   *)

MaxPathLen == 4

PathChars == {"a", "b", "/"}

RelativePaths ==
    {p \in UNION {[1..n -> PathChars] : n \in 1..MaxPathLen} : p[1] # "/"}

Fragments == {<<>>, <<"#", "a">>}

InitRelative ==
    /\ mode = "relative"
    /\ chunked_output = FALSE
    /\ source = <<>>
    /\ rest = <<>>
    /\ eof = TRUE
    /\ pc = "path"
    /\ pos = 0
    /\ xt = NoTree
    /\ err = NoError
    /\ oob = FALSE
    /\ chunks = <<>>
    /\ chunked = Null
    /\ id_paths = NoPaths
    /\ pending = <<>>
    /\ files = <<>>
    /\ dirs = {}
    /\ footnote_number = 0
    /\ asserted = FALSE
    /\ failures = 0
    /\ ret = -1
    /\ call \in {[f |-> "paths", path |-> p \o fragment, base |-> b] :
                    p \in RelativePaths, fragment \in Fragments,
                    b \in RelativePaths}
    /\ detached = {}

RelativePathFrom ==
    /\ pc = "path"
    /\ call.f = "paths"
    /\ call' = [f |-> "relative_path_from", path |-> call.path,
                base |-> call.base,
                result |-> relative_path_from(call.path, call.base)]
    /\ UNCHANGED <<mode, chunked_output, pc, parse_vars, chunk_vars, gen_vars,
                   detached>>

SpecRelative == InitRelative /\ [][RelativePathFrom]_vars

\* the segments of a path: the texts between its slashes
RECURSIVE Segments(_)
Segments(s) ==
    LET slash == read_to(s, 1, "/")
    IN  IF slash = End(s) THEN <<s>>
        ELSE <<SubSeq(s, 1, slash - 1)>> \o Segments(SubSeq(s, slash + 1, Len(s)))

\* the directories of a path: its segments but the last
Directories(s) == SubSeq(Segments(s), 1, Len(Segments(s)) - 1)

\* a reference without its fragment
WithoutFragment(s) == SubSeq(s, 1, read_to(s, 1, "#") - 1)

\* the directories dir followed by the segments segs, each segment ..
\* leaving the directory before it
RECURSIVE Walk(_, _)
Walk(dir, segs) ==
    IF segs = <<>> THEN dir
    ELSE IF Head(segs) = <<".", ".">> /\ dir # <<>>
    THEN Walk(SubSeq(dir, 1, Len(dir) - 1), Tail(segs))
    ELSE Walk(Append(dir, Head(segs)), Tail(segs))

RECURSIVE Joined(_)
Joined(segs) ==
    IF segs = <<>> THEN <<>>
    ELSE IF Len(segs) = 1 THEN segs[1]
    ELSE segs[1] \o <<"/">> \o Joined(Tail(segs))

\* what the reference ref means on the page at base: a reference that
\* begins with a slash is not relative to the page
Resolved(ref, base) ==
    IF ref # <<>> /\ ref[1] = "/" THEN ref
    ELSE Joined(Walk(Directories(base), Segments(WithoutFragment(ref))))
         \o SubSeq(ref, Len(WithoutFragment(ref)) + 1, Len(ref))

\* the number of leading directories path and base have in common
RECURSIVE CommonDirectories(_, _)
CommonDirectories(p, b) ==
    IF p # <<>> /\ b # <<>> /\ Head(p) = Head(b)
    THEN 1 + CommonDirectories(Tail(p), Tail(b))
    ELSE 0

\* the number of times s begins with ../
RECURSIVE LeadingUps(_)
LeadingUps(s) ==
    IF Matches(s, 1, <<".", ".", "/">>) THEN 1 + LeadingUps(SubSeq(s, 4, Len(s))) ELSE 0

\* C25: for relative paths path and base, the path with or without a
\* fragment, relative_path_from(path, base) resolved against the directory
\* of base is path again, and it begins with one ../ for each directory of
\* base that is not a common leading directory of the two.
C25_RelativePathResolvesBack ==
    call.f = "relative_path_from" =>
        /\ Resolved(call.result, call.base) = call.path
        /\ LeadingUps(call.result)
            = Len(Directories(call.base))
                - CommonDirectories(Directories(WithoutFragment(call.path)),
                                    Directories(call.base))

----------------------------------------------------------------------------
(* The end of the source *)

\* C26: when the parse loop has come to the end of the source without a
\* parse error, every element that was opened has been closed: parent_ of
\* the builder is null.
C26_NothingLeftOpenAtTheEnd ==
    (mode = "text" /\ pc = "chunk") => xt.parent = Null

----------------------------------------------------------------------------
(* The inline children of a chunk *)

\* C27: after inline_chunks or inline_sections, the inline children of a
\* chunk come before its other children, and every child of an inline
\* chunk is inline; neither assert(!it->inline_) of generate_chunks_impl
\* nor assert(it->inline_) of generate_inline_chunks fails.
C27_InlineChildrenComeFirst ==
    mode = "books" =>
        /\ ~asserted
        /\ pc \in {"index", "generate", "pages", "done"} =>
            \A c \in DOMAIN chunks :
                LET kids == siblings_from(chunks, chunks[c].children)
                IN  /\ \A i, j \in DOMAIN kids :
                        (i < j /\ chunks[kids[j]].inline)
                            => chunks[kids[i]].inline
                    /\ chunks[c].inline =>
                        \A i \in DOMAIN kids : chunks[kids[i]].inline

\* the pages of a document were written in which a chunk has an inline
\* child and, after it, a child with a page of its own
C27_InlineAndOtherChildren ==
    /\ mode = "books"
    /\ pc = "pages"
    /\ pending = <<>>
    /\ Len(files) > 1
    /\ ~asserted
    /\ \E c \in DOMAIN chunks :
        \E i, j \in DOMAIN siblings_from(chunks, chunks[c].children) :
            /\ chunks[siblings_from(chunks, chunks[c].children)[i]].inline
            /\ ~chunks[siblings_from(chunks, chunks[c].children)[j]].inline

----------------------------------------------------------------------------
(* The paths of the pages *)

\* C28: in chunked output of a document whose id attributes are pairwise
\* distinct, two different chunks that are not inline, the root chunk with
\* its path index.html among them, have different paths, and no page is
\* written to the path of a page written before.
C28_PagesHaveDistinctPaths ==
    (/\ mode = "pages"
     /\ chunked_output
     /\ pc \in {"index", "generate", "pages", "done"}
     /\ DistinctIds(xt.nodes)) =>
        /\ \A c, d \in DOMAIN chunks :
            (c # d /\ ~chunks[c].inline /\ ~chunks[d].inline)
                => chunks[c].path # chunks[d].path
        /\ \A i, j \in DOMAIN files : i # j => files[i].path # files[j].path

----------------------------------------------------------------------------
(* The next links *)

\* the values of href of the links with access key n in a page
NextLinks(page) ==
    {page[i][3] : i \in {j \in 1..(Len(page) - 1) :
                            /\ page[j][1] = "attr"
                            /\ page[j][2] = "href"
                            /\ page[j + 1] = Attribute("accesskey", "n")}}

\* C29: when the pages of a chunked document with one top-level chunk are
\* written, the next link of each page but the last leads to the page
\* written after it, and the last page has no next link: following the
\* next links from the root page visits every page once, in the order the
\* pages were written.
C29_NextLinksFollowTheWrites ==
    (/\ mode = "books"
     /\ chunked_output
     /\ pc = "pages"
     /\ pending = <<>>
     /\ chunks[chunked].next = Null) =>
        \A i \in DOMAIN files :
            NextLinks(files[i].content) =
                IF i = Len(files) THEN {}
                ELSE {relative_path_from(files[i + 1].path, files[i].path)}

----------------------------------------------------------------------------
(* Null chunk pointers *)

\* C30: between chunk_document and get_id_paths no field is read or
\* written through a null chunk pointer, neither through the result of
\* chunk_document nor through the parent of the root chunk: the step from
\* the one to the other never has undefined behaviour, in either output
\* mode.
C30_NoNullChunkPointer ==
    [][(mode = "doc" /\ pc = "inline") => pc' # "undefined"]_vars

============================================================================
